---- MODULE Spec2Model ----
(***************************************************************************)
(* A model of the request-time security evaluation of a compiled OpenAPI   *)
(* operation (Operation.authenticate and _checkSecurityRequirement).       *)
(*                                                                         *)
(* Strings are sequences of tokens, so that concatenation and join are     *)
(* sequence operations; a JavaScript object is a function from its keys,   *)
(* and an object whose key order matters (a security requirement) is the   *)
(* sequence of its entries in insertion order.                             *)
(***************************************************************************)
EXTENDS Integers, Sequences, FiniteSets, TLC

(* ------------------------------ bounds --------------------------------- *)

\* the longest `security` list an operation declares
MaxAlternatives == 2

(* ----------------------------- JS values ------------------------------- *)

\* the JavaScript value `undefined`
Undefined == [jsType |-> "undefined"]

\* an object without own keys: Object.create(null), {}
EmptyObject == <<>>

\* null
Null == [jsType |-> "null"]

\* true and false
BooleanOf(b) == [jsType |-> "boolean", value |-> b]

\* a number
NumberOf(n) == [jsType |-> "number", value |-> n]

\* the falsy values of the model are `undefined`, `null`, `false`, 0 and the
\* empty string
Truthy(v) ==
    /\ v # Undefined
    /\ v # Null
    /\ v # BooleanOf(FALSE)
    /\ v # NumberOf(0)
    /\ v # [jsType |-> "string", value |-> <<>>]

\* obj[key] = value
Put(obj, key, value) ==
    [k \in DOMAIN obj \cup {key} |-> IF k = key THEN value ELSE obj[k]]

\* obj[key] when it is an array or undefined: no array, or the one array
GetArray(obj, key) == IF key \in DOMAIN obj THEN <<obj[key]>> ELSE <<>>

\* arr.includes(x)
Includes(arr, x) == \E i \in 1..Len(arr) : arr[i] = x

\* parts.join(sep), each part being a string (a sequence of tokens)
RECURSIVE Join(_, _)
Join(parts, sep) ==
    IF parts = <<>> THEN <<>>
    ELSE IF Len(parts) = 1 THEN Head(parts)
    ELSE Head(parts) \o <<sep>> \o Join(Tail(parts), sep)

\* the string made of one token
Str(token) == <<token>>

\* arr.map(Str)
Strs(arr) == [i \in 1..Len(arr) |-> Str(arr[i])]

(* ------------------------- the compiled operation ---------------------- *)

\* the security schemes of the document, each with an authenticator
Schemes == {"basicAuth", "oauth"}

\* the scope lists a requirement can ask of a scheme (only oauth has scopes)
ScopeLists(scheme) ==
    IF scheme = "oauth" THEN {<<>>, <<"admin">>, <<"scopeYouDontHave">>}
    ELSE {<<>>}

\* x-exegesis-roles of the operation
RoleLists == {<<>>, <<"r1", "r2">>}

\* one entry of a security requirement object: scheme name -> required scopes
Entries == UNION {[scheme : {s}, scopes : ScopeLists(s)] : s \in Schemes}

\* a security requirement object: its entries in key order, keys distinct
SecurityRequirementObjects ==
    {<<>>} \cup {<<e>> : e \in Entries}
           \cup {<<e, f>> : <<e, f>> \in {p \in Entries \X Entries : p[1].scheme # p[2].scheme}}

\* Object.keys(securityRequirement)
Keys(securityRequirement) ==
    [i \in 1..Len(securityRequirement) |-> securityRequirement[i].scheme]

\* securityRequirement[scheme]
ScopesOf(securityRequirement, scheme) ==
    LET i == CHOOSE j \in 1..Len(securityRequirement) : securityRequirement[j].scheme = scheme
    IN  securityRequirement[i].scopes

\* what an authenticator can resolve to
AuthenticatorResults ==
    {Undefined, [type |-> "invalid"], [type |-> "success"]}
    \cup {[type |-> "success", scopes |-> <<"admin">>]}
    \cup {[type |-> "success", roles |-> r] : r \in {<<"r1">>, <<"r2", "r1">>}}
    \cup {[type |-> "success", scopes |-> <<"admin">>, roles |-> r] : r \in {<<"r1">>, <<"r2", "r1">>}}

VARIABLES
    securityRequirements,  \* Operation.securityRequirements
    requiredRoles,         \* Operation.requiredRoles
    pc,                    \* where the call of authenticate stands
    altIdx,                \* position of the for-of loop of authenticate
    schemeIdx,             \* position of the for-of loop of _checkSecurityRequirement
    reqResult,             \* `result` of _checkSecurityRequirement
    failed,                \* `failed` of _checkSecurityRequirement
    result,                \* `result` of authenticate
    errors,                \* `errors` of authenticate
    triedSchemes,          \* `triedSchemes` of authenticate
    res,                   \* exegesisContext.res
    outcome,               \* how authenticate completed
    calls,                 \* history: how often each authenticator was invoked
    consulted,             \* history: the schemes consulted, in order
    endedAt,               \* history: Len(consulted) when the response was ended, or -1
    options,               \* `options` of generateExegesisRunner
    resolved,              \* what api.resolve answers for the request
    runnerPc,              \* where the call of exegesisRunner stands
    pluginIdx,             \* position of the for-of loop over the plugins
    context,               \* the `security` and `user` of the ExegesisContextImpl
    controllerResult,      \* `controllerResult` of exegesisRunner
    caught,                \* `err` of the catch clause of exegesisRunner
    runnerOutcome,         \* how exegesisRunner completed
    steps,                 \* history: the collaborators invoked by the runner, in order
    oaParameters,          \* the `parameters` of the path item and of the operation
    parameters,            \* Operation._parameters
    rawParams,             \* `params` of parseParameters: the raw values of a request
    paramPc,               \* where the request stands: parsing, validating, done
    parameterValues,       \* what parseParameters returned or threw
    validationErrors,      \* what validateParameters returned
    qsParses,              \* history: how often the raw query string went through qs.parse
    validatorReports,      \* history: what each validator answered, in the order of the calls
    passes,                \* history: what the earlier parses and validations of the request returned
    compileContext,        \* the Oas3CompileContext: the document and the compiled options
    oaOperation,           \* the operation object of the document
    constructorArgs,       \* `method` and `exegesisController` of the constructor of Operation
    operation,             \* the fields of the Operation under construction
    compileError,          \* what the constructor of Operation threw
    compilePc,             \* where the constructor of Operation stands
    requests,              \* the locals of the calls made for each of two requests
    heap,                  \* the objects those calls allocate, by their identity
    oaPaths,               \* the keys of the `paths` object of the document, in order
    pathsPc,               \* where the constructor of Paths stands
    compiledPaths,         \* the templates the constructor of Paths has registered
    pathsError,            \* what the constructor of Paths threw
    pathLookup,            \* history: the path asked of resolvePath and what it answered
    formatCall,            \* the format validator called, its argument and its answer
    resCalls               \* history: the operations invoked on the response, in order

\* the state of the runner
runnerVars == <<options, resolved, runnerPc, pluginIdx, context, controllerResult,
                caught, runnerOutcome, steps>>

\* the state of the parsing and validation of a request's parameters
parameterVars == <<oaParameters, parameters, rawParams, paramPc, parameterValues,
                   validationErrors, qsParses, validatorReports, passes>>

\* the state of the compilation of an operation
compileVars == <<compileContext, oaOperation, constructorArgs, operation, compileError,
                 compilePc>>

\* the state of two requests dispatched together
concurrentVars == <<requests, heap>>

\* the state of the compilation of the paths, of a format validator and of the
\* calls made on a response
partVars == <<oaPaths, pathsPc, compiledPaths, pathsError, pathLookup, formatCall,
              resCalls>>

\* the state that neither authenticate nor the runner touches
otherVars == <<parameterVars, compileVars, concurrentVars, partVars>>

vars == <<securityRequirements, requiredRoles, pc, altIdx, schemeIdx, reqResult,
          failed, result, errors, triedSchemes, res, outcome, calls, consulted,
          endedAt, runnerVars, otherVars>>

(* --------------------- helpers of the security check ------------------- *)

\* exegesisContext.isResponseFinished()
IsResponseFinished == res.ended

\* getMissing, taking an absent or empty `have` for nothing missing
getMissingLax(required, have) ==
    IF have = <<>> \/ Len(have[1]) = 0
    THEN <<>>
    ELSE SelectSeq(required, LAMBDA r : ~Includes(have[1], r))

\* getMissing(required, have): the required entries that `have` lacks
\* (`have` is an array or undefined, see GetArray)
getMissing(required, have) ==
    IF have = <<>> \/ Len(have[1]) = 0
    THEN required
    ELSE SelectSeq(required, LAMBDA r : ~Includes(have[1], r))

\* the cache test, taking a cached falsy result for no result
TriedIfTruthy(tried, scheme) == scheme \in DOMAIN tried /\ Truthy(tried[scheme])

\* `scheme in triedSchemes`
Tried(tried, scheme) == scheme \in DOMAIN tried

\* the reason pushed to `errors` when scopes or roles are missing
MissingReason(scheme, what, missing) ==
    <<"Authenticated using '", scheme, "' but missing required ", what, ": ">>
        \o Join(Strs(missing), ", ") \o <<".">>

\* the checks of one scheme, without the check of the roles
CheckAuthenticatedNoRoles(securityRequirement, scheme, authenticated, roles) ==
    IF ~Truthy(authenticated)
    THEN [failed |-> TRUE, errors |-> <<>>]
    ELSE LET missingScopes == getMissing(ScopesOf(securityRequirement, scheme),
                                         GetArray(authenticated, "scopes"))
         IN  IF Len(missingScopes) > 0
             THEN [failed |-> TRUE,
                   errors |-> <<<<"Authenticated using '", scheme,
                                  "' but missing required ", "scopes", ": ">>
                                \o Join(Strs(missingScopes), ", ") \o <<".">>>>]
             ELSE [failed |-> FALSE, errors |-> <<>>]

\* The checks of one scheme once its authenticator result is known: whether
\* the requirement failed on it, and the reasons it pushes to `errors`.
CheckAuthenticated(securityRequirement, scheme, authenticated, roles) ==
    IF ~Truthy(authenticated)
    THEN [failed |-> TRUE, errors |-> <<>>]
    ELSE LET missingScopes == getMissing(ScopesOf(securityRequirement, scheme),
                                         GetArray(authenticated, "scopes"))
             missingRoles == getMissing(roles, GetArray(authenticated, "roles"))
         IN  IF Len(missingScopes) > 0
             THEN [failed |-> TRUE,
                   errors |-> <<MissingReason(scheme, "scopes", missingScopes)>>]
             ELSE IF Len(missingRoles) > 0
             THEN [failed |-> TRUE,
                   errors |-> <<MissingReason(scheme, "roles", missingRoles)>>]
             ELSE [failed |-> FALSE, errors |-> <<>>]

\* the first step of one iteration, without the test of the finished response
LoopBranchNoFinishedCheck(requirement, idx, finished, tried) ==
    IF idx > Len(requirement) THEN "return"
    ELSE IF ~Tried(tried, Keys(requirement)[idx]) THEN "invoke"
    ELSE "cached"

\* What one iteration of the loop over the schemes does first: the loop is
\* over ("return"), the response is finished ("finished"), the authenticator
\* is to be called ("invoke") or its result is in the cache ("cached").
LoopBranch(requirement, idx, finished, tried) ==
    IF idx > Len(requirement) THEN "return"
    ELSE IF finished THEN "finished"
    ELSE IF ~Tried(tried, Keys(requirement)[idx]) THEN "invoke"
    ELSE "cached"

\* the break condition, without the break on success
StopsEvaluationOnlyWhenFinished(checked, finished) == finished

\* the break condition of the loop over the alternatives
StopsEvaluation(checked, finished) == Truthy(checked) \/ finished

\* the rendering of one alternative, in parentheses whatever its size
RenderRequirementParens(requirement) ==
    <<"(">> \o Join(Strs(Keys(requirement)), " + ") \o <<")">>

\* the rendering of one alternative in the list of available schemes
RenderRequirement(requirement) ==
    LET schemes == Keys(requirement)
    IN  IF Len(schemes) = 1 THEN Str(schemes[1])
        ELSE <<"(">> \o Join(Strs(schemes), " + ") \o <<")">>

\* `authSchemes`: the alternatives, rendered and comma-joined
AuthSchemes(requirements) ==
    Join([i \in 1..Len(requirements) |-> RenderRequirement(requirements[i])], ", ")

\* new HttpError(status, message)
HttpError(status, message) == [status |-> status, message |-> message]

\* the error of the recorded reasons, reporting the first one only
ReasonsErrorFirstOnly(errs) == [status |-> 403, message |-> errs[1]]

\* the error thrown when some alternative recorded a reason
ReasonsError(errs) == HttpError(403, Join(errs, "\n"))

\* the error thrown when no credentials were attempted
NoCredentialsError(requirements) ==
    HttpError(403, <<"Must authenticate using one of the following schemes: ">>
                       \o AuthSchemes(requirements) \o <<".">>)

Returned(value) == [kind |-> "return", value |-> value]
Thrown(error) == [kind |-> "throw", error |-> error]

\* the requirement the loop of authenticate is at
CurrentRequirement == securityRequirements[altIdx]

\* the scheme the loop of _checkSecurityRequirement is at
CurrentScheme == Keys(CurrentRequirement)[schemeIdx]

(* ------------------------------- Init ---------------------------------- *)

\* new ExegesisResponseImpl(res)
NewResponse == [statusCode |-> 200, headers |-> EmptyObject, body |-> Undefined, ended |-> FALSE]

SecurityLists ==
    UNION {[1..n -> SecurityRequirementObjects] : n \in 0..MaxAlternatives}

\* no parameters are declared and none are parsed
NoParameters ==
    /\ oaParameters = EmptyObject
    /\ parameters = EmptyObject
    /\ rawParams = EmptyObject
    /\ paramPc = "none"
    /\ parameterValues = Undefined
    /\ validationErrors = Undefined
    /\ qsParses = 0
    /\ validatorReports = <<>>
    /\ passes = <<>>

\* no operation is being compiled
NoCompile ==
    /\ compileContext = EmptyObject
    /\ oaOperation = EmptyObject
    /\ constructorArgs = EmptyObject
    /\ operation = EmptyObject
    /\ compileError = Undefined
    /\ compilePc = "none"

\* no two requests are dispatched together
NoConcurrent ==
    /\ requests = EmptyObject
    /\ heap = EmptyObject

\* no paths are compiled, no format validator is called and no operation is
\* invoked on a response by hand
NoParts ==
    /\ oaPaths = <<>>
    /\ pathsPc = "none"
    /\ compiledPaths = <<>>
    /\ pathsError = Undefined
    /\ pathLookup = Undefined
    /\ formatCall = Undefined
    /\ resCalls = <<>>

\* the state of the compilation of the paths
pathVars == <<oaPaths, pathsPc, compiledPaths, pathsError, pathLookup>>

NoOther == NoParameters /\ NoCompile /\ NoConcurrent /\ NoParts

\* no request is dispatched: authenticate is called on the operation itself
NoRunner ==
    /\ options = EmptyObject
    /\ resolved = Undefined
    /\ runnerPc = "none"
    /\ pluginIdx = 0
    /\ context = EmptyObject
    /\ controllerResult = Undefined
    /\ caught = Undefined
    /\ runnerOutcome = [kind |-> "pending"]
    /\ steps = <<>>

InitAuth ==
    /\ securityRequirements \in SecurityLists
    /\ requiredRoles \in RoleLists
    /\ pc = "start"
    /\ altIdx = 0
    /\ schemeIdx = 0
    /\ reqResult = EmptyObject
    /\ failed = FALSE
    /\ result = Undefined
    /\ errors = <<>>
    /\ triedSchemes = EmptyObject
    /\ res = NewResponse
    /\ outcome = [kind |-> "pending"]
    /\ calls = [s \in Schemes |-> 0]
    /\ consulted = <<>>
    /\ endedAt = -1
    /\ NoRunner
    /\ NoOther

(* ------------------------------ actions -------------------------------- *)

\* authenticate, up to its loop: no requirements means no auth required
AuthenticateBegin ==
    /\ pc = "start"
    /\ IF Len(securityRequirements) = 0
       THEN /\ outcome' = Returned(Undefined)
            /\ pc' = "done"
            /\ UNCHANGED <<altIdx, errors, result, triedSchemes>>
       ELSE /\ errors' = <<>>
            /\ result' = Undefined
            /\ triedSchemes' = EmptyObject
            /\ altIdx' = 1
            /\ pc' = "auth_loop"
            /\ UNCHANGED outcome
    /\ UNCHANGED <<securityRequirements, requiredRoles, schemeIdx, reqResult, failed,
                   res, calls, consulted, endedAt>>
    /\ UNCHANGED <<runnerVars, otherVars>>

\* the head of the loop over the alternatives: call _checkSecurityRequirement
\* on the next one, or leave the loop when there is none
NextRequirement ==
    /\ pc = "auth_loop"
    /\ IF altIdx <= Len(securityRequirements)
       THEN /\ reqResult' = EmptyObject
            /\ failed' = FALSE
            /\ schemeIdx' = 1
            /\ pc' = "check_loop"
       ELSE /\ pc' = "auth_exit"
            /\ UNCHANGED <<reqResult, failed, schemeIdx>>
    /\ UNCHANGED <<securityRequirements, requiredRoles, altIdx, result, errors,
                   triedSchemes, res, outcome, calls, consulted, endedAt>>
    /\ UNCHANGED <<runnerVars, otherVars>>

\* _checkSecurityRequirement has gone through every scheme of the requirement
SchemesExhausted ==
    /\ pc = "check_loop"
    /\ LoopBranch(CurrentRequirement, schemeIdx, IsResponseFinished, triedSchemes) = "return"
    /\ pc' = "check_return"
    /\ UNCHANGED <<securityRequirements, requiredRoles, altIdx, schemeIdx, reqResult,
                   failed, result, errors, triedSchemes, res, outcome, calls, consulted, endedAt>>
    /\ UNCHANGED <<runnerVars, otherVars>>

\* some authenticator has written a response: the requirement fails
ResponseFinished ==
    /\ pc = "check_loop"
    /\ LoopBranch(CurrentRequirement, schemeIdx, IsResponseFinished, triedSchemes) = "finished"
    /\ failed' = TRUE
    /\ pc' = "check_return"
    /\ UNCHANGED <<securityRequirements, requiredRoles, altIdx, schemeIdx, reqResult,
                   result, errors, triedSchemes, res, outcome, calls, consulted, endedAt>>
    /\ UNCHANGED <<runnerVars, otherVars>>

\* the rest of one iteration, going on to the next scheme after a failure
CheckSchemeNoBreak(tried) ==
    LET authenticated == tried[CurrentScheme]
        check == CheckAuthenticated(CurrentRequirement, CurrentScheme,
                                    authenticated, requiredRoles)
    IN  /\ triedSchemes' = tried
        /\ errors' = errors \o check.errors
        /\ failed' = (failed \/ check.failed)
        /\ reqResult' = IF check.failed THEN reqResult
                        ELSE Put(reqResult, CurrentScheme, authenticated)
        /\ schemeIdx' = schemeIdx + 1
        /\ pc' = "check_loop"

\* the rest of one iteration, from `const authenticated = triedSchemes[scheme]`
CheckScheme(tried) ==
    LET authenticated == tried[CurrentScheme]
        check == CheckAuthenticated(CurrentRequirement, CurrentScheme,
                                    authenticated, requiredRoles)
    IN  /\ triedSchemes' = tried
        /\ errors' = errors \o check.errors
        /\ failed' = check.failed
        /\ IF check.failed
           THEN /\ pc' = "check_return"
                /\ UNCHANGED <<reqResult, schemeIdx>>
           ELSE /\ reqResult' = Put(reqResult, CurrentScheme, authenticated)
                /\ schemeIdx' = schemeIdx + 1
                /\ pc' = "check_loop"

\* a scheme not tried yet: its authenticator is called and awaited
InvokeAuthenticator ==
    /\ pc = "check_loop"
    /\ LoopBranch(CurrentRequirement, schemeIdx, IsResponseFinished, triedSchemes) = "invoke"
    /\ calls' = [calls EXCEPT ![CurrentScheme] = @ + 1]
    /\ consulted' = Append(consulted, [alt |-> altIdx, idx |-> schemeIdx,
                                       scheme |-> CurrentScheme, invoked |-> TRUE])
    /\ pc' = "await_authenticator"
    /\ UNCHANGED <<securityRequirements, requiredRoles, altIdx, schemeIdx, reqResult,
                   failed, result, errors, triedSchemes, res, outcome, endedAt>>
    /\ UNCHANGED <<runnerVars, otherVars>>

\* the authenticator resolves, having ended the response or not; its result
\* is cached and checked
AuthenticatorReturns(authenticated, ends) ==
    /\ pc = "await_authenticator"
    /\ res' = IF ends THEN [res EXCEPT !.ended = TRUE] ELSE res
    /\ endedAt' = IF ends /\ ~res.ended THEN Len(consulted) ELSE endedAt
    /\ CheckScheme(Put(triedSchemes, CurrentScheme, authenticated))
    /\ UNCHANGED <<securityRequirements, requiredRoles, altIdx, result, outcome,
                   calls, consulted>>
    /\ UNCHANGED <<runnerVars, otherVars>>

\* a scheme tried by an earlier alternative: its cached result is checked
UseTriedScheme ==
    /\ pc = "check_loop"
    /\ LoopBranch(CurrentRequirement, schemeIdx, IsResponseFinished, triedSchemes) = "cached"
    /\ consulted' = Append(consulted, [alt |-> altIdx, idx |-> schemeIdx,
                                       scheme |-> CurrentScheme, invoked |-> FALSE])
    /\ CheckScheme(triedSchemes)
    /\ UNCHANGED <<securityRequirements, requiredRoles, altIdx, result, res, outcome,
                   calls, endedAt>>
    /\ UNCHANGED <<runnerVars, otherVars>>

\* _checkSecurityRequirement returns to the loop of authenticate
RequirementChecked ==
    /\ pc = "check_return"
    /\ LET checked == IF failed THEN Undefined ELSE reqResult
       IN  /\ result' = checked
           /\ IF StopsEvaluation(checked, IsResponseFinished)
              THEN /\ pc' = "auth_exit"
                   /\ UNCHANGED altIdx
              ELSE /\ altIdx' = altIdx + 1
                   /\ pc' = "auth_loop"
    /\ UNCHANGED <<securityRequirements, requiredRoles, schemeIdx, reqResult, failed,
                   errors, triedSchemes, res, outcome, calls, consulted, endedAt>>
    /\ UNCHANGED <<runnerVars, otherVars>>

\* after the loop: the identity map, or one of the two errors
AuthenticateEnd ==
    /\ pc = "auth_exit"
    /\ outcome' = IF Truthy(result) THEN Returned(result)
                  ELSE IF Len(errors) > 0 THEN Thrown(ReasonsError(errors))
                  ELSE Thrown(NoCredentialsError(securityRequirements))
    /\ pc' = "done"
    /\ UNCHANGED <<securityRequirements, requiredRoles, altIdx, schemeIdx, reqResult,
                   failed, result, errors, triedSchemes, res, calls, consulted, endedAt>>
    /\ UNCHANGED <<runnerVars, otherVars>>

NextAuth ==
    \/ AuthenticateBegin
    \/ NextRequirement
    \/ SchemesExhausted
    \/ ResponseFinished
    \/ InvokeAuthenticator
    \/ \E authenticated \in AuthenticatorResults, ends \in BOOLEAN :
           AuthenticatorReturns(authenticated, ends)
    \/ UseTriedScheme
    \/ RequirementChecked
    \/ AuthenticateEnd

SpecAuth == InitAuth /\ [][NextAuth]_vars

TypeOK ==
    /\ pc \in {"idle", "start", "auth_loop", "check_loop", "await_authenticator",
                "check_return", "auth_exit", "done"}
    /\ altIdx \in 0..(MaxAlternatives + 1)
    /\ failed \in BOOLEAN

(* ------------------------ values of the runner ------------------------- *)

\* the upper bound on the number of registered plugins
MaxPlugins == 2

\* a string value, as a sequence of tokens
StringOf(tokens) == [jsType |-> "string", value |-> tokens]

\* an instance of Buffer
BufferOf(bytes) == [jsType |-> "Buffer", bytes |-> bytes]

\* a Readable: an object with a pipe function
ReadableOf(content) == [jsType |-> "object", pipe |-> "function", content |-> content]

\* a plain object, its own keys in insertion order
ObjectOf(entries) == [jsType |-> "object", entries |-> entries]

\* an array
ArrayOf(items) == [jsType |-> "array", items |-> items]

\* a function value
Function == [jsType |-> "function"]

\* stringToStream(str, encoding)
stringToStream(str) == ReadableOf(str)

\* bufferToStream(buffer)
bufferToStream(buffer) == ReadableOf(buffer.bytes)

\* JSON.stringify(value) of a string, an array or a plain object
RECURSIVE JSONStringify(_)
JSONStringify(value) ==
    IF value.jsType = "string" THEN <<"\"">> \o value.value \o <<"\"">>
    ELSE IF value.jsType = "array"
    THEN <<"[">>
         \o Join([i \in 1..Len(value.items) |-> JSONStringify(value.items[i])], ",")
         \o <<"]">>
    ELSE <<"{">>
         \o Join([i \in 1..Len(value.entries) |->
                     <<"\"", value.entries[i][1], "\"", ":">>
                     \o JSONStringify(value.entries[i][2])], ",")
         \o <<"}">>

\* new Error(message): an error without a status
NewError(message) == [message |-> message]

\* new ValidationError(errors)
ValidationError(errs) ==
    [status |-> 400, message |-> <<"Validation errors">>, errors |-> errs]

\* err instanceof ValidationError
IsValidationError(err) == "errors" \in DOMAIN err

\* Number.isInteger(err.status)
HasIntegerStatus(err) == "status" \in DOMAIN err /\ err.status \in Int

(* ------------------------ ExegesisResponseImpl ------------------------- *)

\* a method call that returned, and one that threw
Completed(r) == [res |-> r, thrown |-> <<>>]
Threw(r, error) == [res |-> r, thrown |-> <<error>>]

\* res.setStatus(status)
setStatus(r, status) ==
    IF r.ended
    THEN Threw(r, NewError(<<"Trying to set status after response has been ended.">>))
    ELSE Completed([r EXCEPT !.statusCode = status])

\* res.json(json)
json(r, value) ==
    IF r.ended
    THEN Threw(r, NewError(<<"Trying to set JSON content after response has been ended.">>))
    ELSE Completed([r EXCEPT !.body = value, !.ended = TRUE])

\* res.setBody(body)
setBody(r, value) ==
    IF r.ended
    THEN Threw(r, NewError(<<"Trying to set body after response has been ended.">>))
    ELSE Completed([r EXCEPT !.body = value, !.ended = TRUE])

\* res.end()
end(r) == Completed([r EXCEPT !.ended = TRUE])

\* res.setHeader(name, value)
setHeader(r, name, value) ==
    IF r.ended
    THEN Threw(r, NewError(<<"Trying to set header after response has been ended.">>))
    ELSE Completed([r EXCEPT !.headers = Put(@, name, value)])

\* res.getHeader(name)
getHeader(r, name) == IF name \in DOMAIN r.headers THEN r.headers[name] ELSE Undefined

\* one call of a method of the response
Call(r, c) ==
    CASE c.method = "setStatus" -> setStatus(r, c.args[1])
      [] c.method = "setHeader" -> setHeader(r, c.args[1], c.args[2])
      [] c.method = "json" -> json(r, c.args[1])
      [] c.method = "setBody" -> setBody(r, c.args[1])
      [] c.method = "end" -> end(r)

\* the calls a hook or a controller makes on the response, up to the first
\* one that throws
RECURSIVE Calls(_, _)
Calls(r, script) ==
    IF script = <<>> THEN Completed(r)
    ELSE LET first == Call(r, Head(script))
         IN  IF first.thrown # <<>> THEN first ELSE Calls(first.res, Tail(script))

(* ----------------------------- the runner ------------------------------ *)

\* const plugins = options.plugins || []
plugins == IF "plugins" \in DOMAIN options THEN options.plugins ELSE <<>>

\* options.autoHandleHttpErrors, undefined when the option is not given
AutoHandleHttpErrors ==
    "autoHandleHttpErrors" \in DOMAIN options /\ options.autoHandleHttpErrors

\* the request
method == "GET"
url == "/path"

\* the error for an operation without controller, as an HttpError
ConfigurationErrorWithStatus ==
    HttpError(500, <<"No operation found for ", method, " ", url>>)

\* the error for an operation without controller
ConfigurationError == NewError(<<"No operation found for ", method, " ", url>>)

\* the test of the answer of api.resolve, without `&& resolved.operation`
DispatchWithoutOperationTest(resolvedValue) ==
    IF Truthy(resolvedValue)
    THEN IF Truthy(resolvedValue.operation)
         THEN IF \/ ~Truthy(resolvedValue.operation.controllerModule)
                 \/ ~Truthy(resolvedValue.operation.controller)
              THEN "unbound"
              ELSE "run"
         ELSE "unbound"
    ELSE "unhandled"

\* what exegesisRunner does with the answer of api.resolve
Dispatch(resolvedValue) ==
    IF Truthy(resolvedValue) /\ Truthy(resolvedValue.operation)
    THEN IF \/ ~Truthy(resolvedValue.operation.controllerModule)
            \/ ~Truthy(resolvedValue.operation.controller)
         THEN "unbound"
         ELSE "run"
    ELSE "unhandled"

\* a handleSecurity that takes the user of some scheme, however many matched
UserOfAnyScheme(authenticated, user) ==
    IF Truthy(authenticated) /\ DOMAIN authenticated # {}
    THEN LET scheme == CHOOSE k \in DOMAIN authenticated : TRUE
         IN  IF "user" \in DOMAIN authenticated[scheme]
             THEN authenticated[scheme].user
             ELSE Undefined
    ELSE user

\* context.user after handleSecurity
UserOf(authenticated, user) ==
    IF Truthy(authenticated) /\ Cardinality(DOMAIN authenticated) = 1
    THEN LET scheme == CHOOSE k \in DOMAIN authenticated : TRUE
         IN  IF "user" \in DOMAIN authenticated[scheme]
             THEN authenticated[scheme].user
             ELSE Undefined
    ELSE user

\* a failed `await operation.authenticate(context)` leaves the try block
SecurityBranchSwallowsFailure(authOutcome) == "plugins"

\* after handleSecurity: the catch clause when authenticate threw
SecurityBranch(authOutcome) ==
    IF authOutcome.kind = "throw" THEN "catch" ELSE "plugins"

\* one iteration of the loop over the plugins, without the finished test
PluginBranchNoFinishedCheck(plugin, finished) ==
    IF Truthy(plugin.preController) THEN "invoke" ELSE "skip"

\* one iteration of the loop over the plugins
PluginBranch(plugin, finished) ==
    IF ~finished /\ Truthy(plugin.preController) THEN "invoke" ELSE "skip"

\* the test around getParams and getBody
ParseBranch(finished) == IF ~finished THEN "parse" ELSE "skip"

\* the test around invokeController, without the finished test
ControllerBranchAlways(finished) == "invoke"

\* the test around invokeController
ControllerBranch(finished) == IF ~finished THEN "invoke" ELSE "skip"

\* context.res.body || controllerResult
Payload(body, returned) == IF Truthy(body) THEN body ELSE returned

\* the HttpResult built from the response
HttpResult(r, output) ==
    [status |-> r.statusCode, headers |-> r.headers, body |-> output]

\* resultToHttpResponse setting the content type of every JSON value
resultToHttpResponseAlwaysSets(r, value) ==
    IF ~Truthy(value) THEN [res |-> r, thrown |-> <<>>, value |-> HttpResult(r, Undefined)]
    ELSE IF value.jsType = "Buffer"
    THEN [res |-> r, thrown |-> <<>>, value |-> HttpResult(r, bufferToStream(value))]
    ELSE IF value.jsType = "string"
    THEN [res |-> r, thrown |-> <<>>, value |-> HttpResult(r, stringToStream(value.value))]
    ELSE IF "pipe" \in DOMAIN value /\ value.pipe = "function"
    THEN [res |-> r, thrown |-> <<>>, value |-> HttpResult(r, value)]
    ELSE LET set == setHeader(r, "content-type", StringOf(<<"application/json">>))
         IN  IF set.thrown # <<>>
             THEN [res |-> r, thrown |-> set.thrown, value |-> Undefined]
             ELSE [res |-> set.res, thrown |-> <<>>,
                   value |-> HttpResult(set.res, stringToStream(JSONStringify(value)))]

\* resultToHttpResponse(context, result): the response after the call, the
\* error thrown if any, and the HttpResult returned
resultToHttpResponse(r, value) ==
    IF ~Truthy(value) THEN [res |-> r, thrown |-> <<>>, value |-> HttpResult(r, Undefined)]
    ELSE IF value.jsType = "Buffer"
    THEN [res |-> r, thrown |-> <<>>, value |-> HttpResult(r, bufferToStream(value))]
    ELSE IF value.jsType = "string"
    THEN [res |-> r, thrown |-> <<>>, value |-> HttpResult(r, stringToStream(value.value))]
    ELSE IF "pipe" \in DOMAIN value /\ value.pipe = "function"
    THEN [res |-> r, thrown |-> <<>>, value |-> HttpResult(r, value)]
    ELSE LET set == IF ~Truthy(getHeader(r, "content-type"))
                    THEN setHeader(r, "content-type", StringOf(<<"application/json">>))
                    ELSE Completed(r)
         IN  IF set.thrown # <<>>
             THEN [res |-> r, thrown |-> set.thrown, value |-> Undefined]
             ELSE [res |-> set.res, thrown |-> <<>>,
                   value |-> HttpResult(set.res, stringToStream(JSONStringify(value)))]

\* the JSON result of an error
ErrorResult(status, body) ==
    [status |-> status,
     headers |-> Put(EmptyObject, "content-type", StringOf(<<"application/json">>)),
     body |-> stringToStream(JSONStringify(body))]

\* handleError converting validation errors only
handleErrorValidationOnly(err) ==
    IF IsValidationError(err)
    THEN Returned(ErrorResult(err.status,
             ObjectOf(<< <<"message", StringOf(<<"Validation errors">>)>>,
                         <<"errors", err.errors>> >>)))
    ELSE Thrown(err)

\* handleError answering 500 for an error without status
handleErrorInternalServerError(err) ==
    IF IsValidationError(err)
    THEN Returned(ErrorResult(err.status,
             ObjectOf(<< <<"message", StringOf(<<"Validation errors">>)>>,
                         <<"errors", err.errors>> >>)))
    ELSE IF HasIntegerStatus(err)
    THEN Returned(ErrorResult(err.status,
             ObjectOf(<< <<"message", StringOf(err.message)>> >>)))
    ELSE Returned(ErrorResult(500,
             ObjectOf(<< <<"message", StringOf(err.message)>> >>)))

\* handleError(err)
handleError(err) ==
    IF IsValidationError(err)
    THEN Returned(ErrorResult(err.status,
             ObjectOf(<< <<"message", StringOf(<<"Validation errors">>)>>,
                         <<"errors", err.errors>> >>)))
    ELSE IF HasIntegerStatus(err)
    THEN Returned(ErrorResult(err.status,
             ObjectOf(<< <<"message", StringOf(err.message)>> >>)))
    ELSE Thrown(err)

\* the catch clause of exegesisRunner
OnError(err) == IF AutoHandleHttpErrors THEN handleError(err) ELSE Thrown(err)

(* ----------------------- the inputs of the runner ---------------------- *)

\* the plugins, with or without a preController hook
PluginLists ==
    UNION {[1..n -> {[preController |-> Function], [preController |-> Undefined]}] :
              n \in 0..MaxPlugins}

\* the options given to generateExegesisRunner, {} by default
RunnerOptions ==
    {EmptyObject}
    \cup {[autoHandleHttpErrors |-> a, plugins |-> p] : a \in BOOLEAN, p \in PluginLists}

\* what api.resolve can answer
ResolvedValues ==
    {Undefined, [operation |-> Undefined]}
    \cup {[operation |-> [controllerModule |-> m, controller |-> c]] :
              m \in {Undefined, [jsType |-> "object"]}, c \in {Undefined, Function}}

\* the security of the operations dispatched
RunnerSecurityLists ==
    { <<>>,
      << <<[scheme |-> "basicAuth", scopes |-> <<>>]>>,
         <<[scheme |-> "oauth", scopes |-> <<"admin">>]>> >>,
      << <<[scheme |-> "basicAuth", scopes |-> <<>>],
           [scheme |-> "oauth", scopes |-> <<"admin">>]>>,
         <<[scheme |-> "basicAuth", scopes |-> <<>>]>> >> }

\* what the authenticators of the dispatched operations resolve to
RunnerAuthenticatorResults ==
    {Undefined,
     [type |-> "success", user |-> StringOf(<<"benbria">>), scopes |-> <<"admin">>]}

\* the values a controller returns or writes
AnObject == ObjectOf(<< <<"message", StringOf(<<"ok">>)>> >>)
ControllerValues ==
    {Undefined, Null, BooleanOf(FALSE), NumberOf(0), StringOf(<<>>), StringOf(<<"text">>),
     BufferOf(<<"bytes">>), ReadableOf(<<"chunk">>), AnObject}

\* the calls hooks and controllers make on the response
SetContentType == [method |-> "setHeader", args |-> <<"content-type", StringOf(<<"text/html">>)>>]
Scripts ==
    { <<>>,
      <<SetContentType>>,
      <<[method |-> "json", args |-> <<AnObject>>]>>,
      <<SetContentType, [method |-> "setBody", args |-> <<AnObject>>]>>,
      <<[method |-> "setStatus", args |-> <<201>>]>>,
      <<[method |-> "setStatus", args |-> <<404>>],
        [method |-> "setBody", args |-> <<StringOf(<<"not found">>)>>]>>,
      <<[method |-> "end", args |-> <<>>]>>,
      <<[method |-> "end", args |-> <<>>], SetContentType>> }

\* what a hook, a parser or a controller throws, if anything
Throws ==
    { <<>>,
      <<NewError(<<"boom">>)>>,
      <<HttpError(409, <<"conflict">>)>>,
      <<ValidationError(ArrayOf(<<ObjectOf(<< <<"message", StringOf(<<"bad">>)>> >>)>>))>> }

(* ------------------------- Init of the runner -------------------------- *)

\* the state of authenticate, which every runner action leaves alone
authState == <<securityRequirements, requiredRoles, altIdx, schemeIdx, reqResult,
               failed, result, errors, triedSchemes, outcome, calls, consulted, endedAt>>

\* a step of the history
Step(name, idx) == [step |-> name, idx |-> idx, finished |-> IsResponseFinished]

InitRunner ==
    /\ securityRequirements \in RunnerSecurityLists
    /\ requiredRoles = <<>>
    /\ pc = "idle"
    /\ altIdx = 0
    /\ schemeIdx = 0
    /\ reqResult = EmptyObject
    /\ failed = FALSE
    /\ result = Undefined
    /\ errors = <<>>
    /\ triedSchemes = EmptyObject
    /\ res = NewResponse
    /\ outcome = [kind |-> "pending"]
    /\ calls = [s \in Schemes |-> 0]
    /\ consulted = <<>>
    /\ endedAt = -1
    /\ options \in RunnerOptions
    /\ resolved \in ResolvedValues
    /\ runnerPc = "start"
    /\ pluginIdx = 0
    /\ context = [security |-> Undefined, user |-> Undefined]
    /\ controllerResult = Undefined
    /\ caught = Undefined
    /\ runnerOutcome = [kind |-> "pending"]
    /\ steps = <<>>
    /\ NoOther

(* ------------------------ actions of the runner ------------------------ *)

\* no operation matches the request: exegesisRunner returns undefined
ReturnUnhandled ==
    /\ runnerPc = "start"
    /\ Dispatch(resolved) = "unhandled"
    /\ runnerOutcome' = Returned(Undefined)
    /\ runnerPc' = "done"
    /\ UNCHANGED <<otherVars, authState, pc, res, options, resolved, pluginIdx, context,
                   controllerResult, caught, steps>>

\* the operation has no controller: exegesisRunner throws inside its try block
ThrowUnbound ==
    /\ runnerPc = "start"
    /\ Dispatch(resolved) = "unbound"
    /\ caught' = ConfigurationError
    /\ runnerPc' = "catch"
    /\ UNCHANGED <<otherVars, authState, pc, res, options, resolved, pluginIdx, context,
                   controllerResult, runnerOutcome, steps>>

\* the context is made and handleSecurity calls operation.authenticate
HandleSecurity ==
    /\ runnerPc = "start"
    /\ Dispatch(resolved) = "run"
    /\ pc' = "start"
    /\ runnerPc' = "handleSecurity"
    /\ UNCHANGED <<otherVars, authState, res, options, resolved, pluginIdx, context,
                   controllerResult, caught, runnerOutcome, steps>>

\* authenticate has completed: handleSecurity fills the context, or throws
HandleSecurityReturns ==
    /\ runnerPc = "handleSecurity"
    /\ pc = "done"
    /\ IF SecurityBranch(outcome) = "catch"
       THEN /\ caught' = outcome.error
            /\ runnerPc' = "catch"
            /\ UNCHANGED <<context, pluginIdx>>
       ELSE /\ LET authenticated == IF outcome.kind = "return" THEN outcome.value
                                    ELSE Undefined
               IN  context' = [security |-> authenticated,
                               user |-> UserOf(authenticated, context.user)]
            /\ pluginIdx' = 1
            /\ runnerPc' = "plugins"
            /\ UNCHANGED caught
    /\ UNCHANGED <<otherVars, authState, pc, res, options, resolved, controllerResult,
                   runnerOutcome, steps>>

\* the plugin has a preController hook and the response is not finished: the
\* hook is called and awaited
InvokePreController ==
    /\ runnerPc = "plugins"
    /\ pluginIdx <= Len(plugins)
    /\ PluginBranch(plugins[pluginIdx], IsResponseFinished) = "invoke"
    /\ steps' = Append(steps, Step("preController", pluginIdx))
    /\ runnerPc' = "await_preController"
    /\ UNCHANGED <<otherVars, authState, pc, res, options, resolved, pluginIdx, context,
                   controllerResult, caught, runnerOutcome>>

\* the plugin is passed over
SkipPlugin ==
    /\ runnerPc = "plugins"
    /\ pluginIdx <= Len(plugins)
    /\ PluginBranch(plugins[pluginIdx], IsResponseFinished) = "skip"
    /\ pluginIdx' = pluginIdx + 1
    /\ UNCHANGED <<otherVars, authState, pc, res, options, resolved, runnerPc, context,
                   controllerResult, caught, runnerOutcome, steps>>

\* the hook completes, after its calls on the response
PreControllerReturns(script, thrown) ==
    /\ runnerPc = "await_preController"
    /\ LET called == Calls(res, script)
           error == IF called.thrown # <<>> THEN called.thrown ELSE thrown
       IN  /\ res' = called.res
           /\ IF error # <<>>
              THEN /\ caught' = error[1]
                   /\ runnerPc' = "catch"
                   /\ UNCHANGED pluginIdx
              ELSE /\ pluginIdx' = pluginIdx + 1
                   /\ runnerPc' = "plugins"
                   /\ UNCHANGED caught
    /\ UNCHANGED <<otherVars, authState, pc, options, resolved, context, controllerResult,
                   runnerOutcome, steps>>

\* after the plugins, the response not being finished: context.getParams()
GetParams ==
    /\ runnerPc = "plugins"
    /\ pluginIdx > Len(plugins)
    /\ ParseBranch(IsResponseFinished) = "parse"
    /\ steps' = Append(steps, Step("getParams", 0))
    /\ runnerPc' = "await_getParams"
    /\ UNCHANGED <<otherVars, authState, pc, res, options, resolved, pluginIdx, context,
                   controllerResult, caught, runnerOutcome>>

\* after the plugins, the response being finished: nothing is parsed
SkipParsing ==
    /\ runnerPc = "plugins"
    /\ pluginIdx > Len(plugins)
    /\ ParseBranch(IsResponseFinished) = "skip"
    /\ runnerPc' = "controller"
    /\ UNCHANGED <<otherVars, authState, pc, res, options, resolved, pluginIdx, context,
                   controllerResult, caught, runnerOutcome, steps>>

\* getParams completes; context.getBody() is called next
GetParamsReturns(thrown) ==
    /\ runnerPc = "await_getParams"
    /\ IF thrown # <<>>
       THEN /\ caught' = thrown[1]
            /\ runnerPc' = "catch"
            /\ UNCHANGED steps
       ELSE /\ steps' = Append(steps, Step("getBody", 0))
            /\ runnerPc' = "await_getBody"
            /\ UNCHANGED caught
    /\ UNCHANGED <<otherVars, authState, pc, res, options, resolved, pluginIdx, context,
                   controllerResult, runnerOutcome>>

\* getBody completes, the body parser having ended the response or not
GetBodyReturns(thrown, ends) ==
    /\ runnerPc = "await_getBody"
    /\ res' = IF ends THEN [res EXCEPT !.ended = TRUE] ELSE res
    /\ IF thrown # <<>>
       THEN /\ caught' = thrown[1]
            /\ runnerPc' = "catch"
       ELSE /\ runnerPc' = "controller"
            /\ UNCHANGED caught
    /\ UNCHANGED <<otherVars, authState, pc, options, resolved, pluginIdx, context,
                   controllerResult, runnerOutcome, steps>>

\* the response is not finished: invokeController
InvokeController ==
    /\ runnerPc = "controller"
    /\ ControllerBranch(IsResponseFinished) = "invoke"
    /\ steps' = Append(steps, Step("controller", 0))
    /\ runnerPc' = "await_controller"
    /\ UNCHANGED <<otherVars, authState, pc, res, options, resolved, pluginIdx, context,
                   controllerResult, caught, runnerOutcome>>

\* the response is finished: the controller is not invoked
SkipController ==
    /\ runnerPc = "controller"
    /\ ControllerBranch(IsResponseFinished) = "skip"
    /\ runnerPc' = "respond"
    /\ UNCHANGED <<otherVars, authState, pc, res, options, resolved, pluginIdx, context,
                   controllerResult, caught, runnerOutcome, steps>>

\* the controller completes, after its calls on the response
ControllerReturns(script, thrown, value) ==
    /\ runnerPc = "await_controller"
    /\ LET called == Calls(res, script)
           error == IF called.thrown # <<>> THEN called.thrown ELSE thrown
       IN  /\ res' = called.res
           /\ IF error # <<>>
              THEN /\ caught' = error[1]
                   /\ runnerPc' = "catch"
                   /\ UNCHANGED controllerResult
              ELSE /\ controllerResult' = value
                   /\ runnerPc' = "respond"
                   /\ UNCHANGED caught
    /\ UNCHANGED <<otherVars, authState, pc, options, resolved, pluginIdx, context,
                   runnerOutcome, steps>>

\* return resultToHttpResponse(context, context.res.body || controllerResult)
Respond ==
    /\ runnerPc = "respond"
    /\ LET response == resultToHttpResponse(res, Payload(res.body, controllerResult))
       IN  /\ res' = response.res
           /\ steps' = Append(steps, Step("respond", 0))
           /\ IF response.thrown # <<>>
              THEN /\ caught' = response.thrown[1]
                   /\ runnerPc' = "catch"
                   /\ UNCHANGED runnerOutcome
              ELSE /\ runnerOutcome' = Returned(response.value)
                   /\ runnerPc' = "done"
                   /\ UNCHANGED caught
    /\ UNCHANGED <<otherVars, authState, pc, options, resolved, pluginIdx, context,
                   controllerResult>>

\* the catch clause: the error is converted or thrown again
Catch ==
    /\ runnerPc = "catch"
    /\ runnerOutcome' = OnError(caught)
    /\ runnerPc' = "done"
    /\ UNCHANGED <<otherVars, authState, pc, res, options, resolved, pluginIdx, context,
                   controllerResult, caught, steps>>

NextRunner ==
    \/ ReturnUnhandled
    \/ ThrowUnbound
    \/ HandleSecurity
    \/ AuthenticateBegin
    \/ NextRequirement
    \/ SchemesExhausted
    \/ ResponseFinished
    \/ InvokeAuthenticator
    \/ \E authenticated \in RunnerAuthenticatorResults, ends \in BOOLEAN :
           AuthenticatorReturns(authenticated, ends)
    \/ UseTriedScheme
    \/ RequirementChecked
    \/ AuthenticateEnd
    \/ HandleSecurityReturns
    \/ InvokePreController
    \/ SkipPlugin
    \/ \E script \in Scripts, thrown \in Throws : PreControllerReturns(script, thrown)
    \/ GetParams
    \/ SkipParsing
    \/ \E thrown \in Throws : GetParamsReturns(thrown)
    \/ \E thrown \in Throws, ends \in BOOLEAN : GetBodyReturns(thrown, ends)
    \/ InvokeController
    \/ SkipController
    \/ \E script \in Scripts, thrown \in Throws, value \in ControllerValues :
           ControllerReturns(script, thrown, value)
    \/ Respond
    \/ Catch

SpecRunner == InitRunner /\ [][NextRunner]_vars

(* ------------------- vocabulary of the properties ---------------------- *)

Done == pc = "done"

\* authenticate returned an identity map
ReturnedIdentity == outcome.kind = "return" /\ outcome.value # Undefined

\* the elements of an array
Elements(arr) == {arr[i] : i \in 1..Len(arr)}

\* the entries of an array field of an object, none when the field is absent
FieldElements(obj, field) ==
    IF field \in DOMAIN obj THEN Elements(obj[field]) ELSE {}

\* an authenticator result that is truthy and carries the scopes and roles
Satisfies(authenticated, scopes, roles) ==
    /\ authenticated # Undefined
    /\ Elements(scopes) \subseteq FieldElements(authenticated, "scopes")
    /\ Elements(roles) \subseteq FieldElements(authenticated, "roles")

\* entry k of alternative i was answered by its authenticator and satisfied
EntrySatisfied(i, k) ==
    LET entry == securityRequirements[i][k]
    IN  /\ entry.scheme \in DOMAIN triedSchemes
        /\ Satisfies(triedSchemes[entry.scheme], entry.scopes, requiredRoles)

\* entry k of alternative i was answered by its authenticator and not satisfied
EntryRefused(i, k) ==
    LET entry == securityRequirements[i][k]
    IN  /\ entry.scheme \in DOMAIN triedSchemes
        /\ ~Satisfies(triedSchemes[entry.scheme], entry.scopes, requiredRoles)

\* every scheme of alternative i is satisfied
AlternativeSatisfied(i) ==
    \A k \in 1..Len(securityRequirements[i]) : EntrySatisfied(i, k)

Alternatives == 1..Len(securityRequirements)

\* the names of the schemes of alternative i
SchemesOf(i) == {securityRequirements[i][k].scheme : k \in 1..Len(securityRequirements[i])}

(* ------------------------------- C1 ------------------------------------ *)

\* C1: during one call of authenticate every scheme's authenticator is invoked
\* at most once, however many alternatives reference the scheme and whether
\* its first result was truthy or falsy.
C1_AuthenticatorInvokedAtMostOnce == \A s \in Schemes : calls[s] <= 1

\* a scheme whose authenticator gave a falsy result was consulted by two
\* alternatives, the second time from the cache
C1_Witness ==
    /\ Done
    /\ \E m, n \in 1..Len(consulted) :
          /\ m < n
          /\ consulted[m].scheme = consulted[n].scheme
          /\ consulted[m].alt # consulted[n].alt
          /\ triedSchemes[consulted[m].scheme] = Undefined

(* ------------------------------- C2 ------------------------------------ *)

C3_FirstSatisfiedAlternativeWins ==
    (Done /\ ReturnedIdentity) =>
        \E i \in Alternatives :
            /\ AlternativeSatisfied(i)
            /\ \A j \in 1..(i - 1) : ~AlternativeSatisfied(j)
            /\ DOMAIN outcome.value = SchemesOf(i)
            /\ \A s \in SchemesOf(i) : outcome.value[s] = triedSchemes[s]
            /\ \A n \in 1..Len(consulted) : consulted[n].alt <= i

\* the first of two alternatives won, and the second one names a scheme whose
\* authenticator was never called
C3_Witness ==
    /\ Done /\ ReturnedIdentity
    /\ Len(securityRequirements) = 2
    /\ AlternativeSatisfied(1)
    /\ Len(securityRequirements[1]) > 0
    /\ \E s \in SchemesOf(2) : calls[s] = 0

(* ------------------------------- C4 ------------------------------------ *)

\* C4: with zero security requirements authenticate succeeds without
\* invoking any authenticator and returns an empty identity map ({}).
C4_NoRequirementsReturnsEmptyMap ==
    (Done /\ Len(securityRequirements) = 0) =>
        /\ outcome = Returned(EmptyObject)
        /\ \A s \in Schemes : calls[s] = 0

(* ------------------------------- C5 ------------------------------------ *)

\* once the response is finished, no scheme is consulted and no alternative
\* is entered any more
NothingAfterFinished ==
    res.ended =>
        /\ endedAt \in 1..Len(consulted)
        /\ Len(consulted) = endedAt
        /\ consulted[endedAt].invoked
        /\ altIdx = consulted[endedAt].alt

\* C5 as claimed: if an authenticator finalizes the response the whole
\* evaluation is aborted as failed; from that moment no further authenticator
\* is invoked and no remaining alternative is evaluated.
C5_FinishedAbortsAsFailed ==
    /\ NothingAfterFinished
    /\ (Done /\ res.ended) => outcome.kind = "throw"

\* C5 as amended: if an authenticator finalizes the response, no further
\* authenticator is invoked and no remaining alternative is evaluated; the
\* evaluation fails, unless the finalizing authenticator belongs to the last
\* scheme of its alternative and that alternative is satisfied, in which case
\* the identity map of that alternative is returned.
C5_FinishedStopsEvaluation ==
    /\ NothingAfterFinished
    /\ (Done /\ res.ended) =>
          LET last == consulted[endedAt]
              wins == /\ last.idx = Len(securityRequirements[last.alt])
                      /\ AlternativeSatisfied(last.alt)
          IN  IF wins
              THEN /\ ReturnedIdentity
                   /\ DOMAIN outcome.value = SchemesOf(last.alt)
              ELSE outcome.kind = "throw"

\* an authenticator finalized the response while schemes and alternatives
\* were still to come, and the evaluation failed
C5_Witness ==
    /\ Done /\ res.ended
    /\ outcome.kind = "throw"
    /\ Len(securityRequirements) = 2
    /\ consulted[endedAt].alt = 1
    /\ consulted[endedAt].idx = 1
    /\ Len(securityRequirements[1]) = 2
    /\ EntrySatisfied(1, 1)
    /\ \E s \in SchemesOf(1) \cup SchemesOf(2) : calls[s] = 0

(* ------------------------------- C6 ------------------------------------ *)

\* C6: within one alternative the schemes are consulted strictly in declared
\* order: the k-th scheme only after schemes 1..k-1 of that alternative were
\* consulted and satisfied, and no scheme after the first one that failed.
C6_SchemesInDeclaredOrder ==
    \A n \in 1..Len(consulted) :
        LET e == consulted[n]
        IN  /\ e.alt \in Alternatives
            /\ e.idx \in 1..Len(securityRequirements[e.alt])
            /\ e.scheme = securityRequirements[e.alt][e.idx].scheme
            /\ e.idx > 1 =>
                  /\ n > 1
                  /\ consulted[n - 1].alt = e.alt
                  /\ consulted[n - 1].idx = e.idx - 1
            /\ \A j \in 1..(e.idx - 1) : EntrySatisfied(e.alt, j)
            /\ EntryRefused(e.alt, e.idx) =>
                  \A m \in (n + 1)..Len(consulted) : consulted[m].alt # e.alt

\* the second scheme of an alternative was consulted after the first passed,
\* and in another alternative of two schemes the first scheme failed
C6_Witness ==
    /\ Done
    /\ \E n \in 1..Len(consulted) : consulted[n].idx = 2
    /\ \E i \in Alternatives :
          /\ Len(securityRequirements[i]) = 2
          /\ EntryRefused(i, 1)
          /\ \E n \in 1..Len(consulted) : consulted[n].alt = i

(* ------------------------------- C7 ------------------------------------ *)

\* C7: whenever authenticate returns an identity map, every scheme in it has
\* a result whose scopes include every scope the winning alternative requires
\* of that scheme and whose roles include every role the operation requires.
C7_IdentityCarriesScopesAndRoles ==
    (Done /\ ReturnedIdentity) =>
        /\ altIdx \in Alternatives
        /\ DOMAIN outcome.value = SchemesOf(altIdx)
        /\ \A k \in 1..Len(securityRequirements[altIdx]) :
              LET entry == securityRequirements[altIdx][k]
              IN  Satisfies(outcome.value[entry.scheme], entry.scopes, requiredRoles)

\* an identity map was returned for an alternative that requires a scope,
\* on an operation that requires roles
C7_Witness ==
    /\ Done /\ ReturnedIdentity
    /\ requiredRoles # <<>>
    /\ altIdx \in Alternatives
    /\ \E k \in 1..Len(securityRequirements[altIdx]) :
          securityRequirements[altIdx][k].scopes # <<>>

(* ------------------------------- C8 ------------------------------------ *)

\* the items of a list, each followed by the separator except the last
RECURSIVE Separated(_, _)
Separated(items, sep) ==
    IF Len(items) = 0 THEN <<>>
    ELSE IF Len(items) = 1 THEN items[1]
    ELSE Separated(SubSeq(items, 1, Len(items) - 1), sep) \o <<sep>> \o items[Len(items)]

\* the required entries, in order, that the result's field does not list
Lacking(required, authenticated, field) ==
    SelectSeq(required, LAMBDA r : r \notin FieldElements(authenticated, field))

\* the words of a list of names
Words(names) == [i \in 1..Len(names) |-> <<names[i]>>]

\* the reason expected of a consulted scheme that authenticated without the
\* required scopes or, having those, without the required roles
ExpectedReason(e) ==
    LET entry == securityRequirements[e.alt][e.idx]
        authenticated == triedSchemes[e.scheme]
        scopes == Lacking(entry.scopes, authenticated, "scopes")
        roles == Lacking(requiredRoles, authenticated, "roles")
    IN  IF scopes # <<>>
        THEN <<"Authenticated using '", e.scheme, "' but missing required ", "scopes", ": ">>
                 \o Separated(Words(scopes), ", ") \o <<".">>
        ELSE <<"Authenticated using '", e.scheme, "' but missing required ", "roles", ": ">>
                 \o Separated(Words(roles), ", ") \o <<".">>

\* the reasons expected of the schemes consulted so far, in order
RECURSIVE ExpectedReasons(_)
ExpectedReasons(n) ==
    IF n = 0 THEN <<>>
    ELSE LET e == consulted[n]
         IN  ExpectedReasons(n - 1) \o
                 (IF /\ e.scheme \in DOMAIN triedSchemes
                     /\ triedSchemes[e.scheme] # Undefined
                     /\ EntryRefused(e.alt, e.idx)
                  THEN <<ExpectedReason(e)>> ELSE <<>>)

\* C8: if no alternative succeeds and some alternative recorded a missing
\* scope or role, authenticate fails with status 403 and a message made of
\* all the recorded reasons, in the order they were recorded.
C8_ReasonsSurfaceIn403 ==
    (Done /\ ~ReturnedIdentity /\ Len(securityRequirements) > 0
          /\ ExpectedReasons(Len(consulted)) # <<>>) =>
        /\ outcome.kind = "throw"
        /\ outcome.error.status = 403
        /\ outcome.error.message = Separated(ExpectedReasons(Len(consulted)), "\n")
        /\ (/\ securityRequirements = <<<<[scheme |-> "oauth", scopes |-> <<"scopeYouDontHave">>]>>>>
            /\ requiredRoles = <<>>
            /\ triedSchemes["oauth"] # Undefined)
           => outcome.error.message =
                  <<"Authenticated using '", "oauth", "' but missing required ",
                    "scopes", ": ", "scopeYouDontHave", ".">>

\* two alternatives each recorded a reason, one of them naming two roles
C8_Witness ==
    /\ Done /\ outcome.kind = "throw"
    /\ Len(ExpectedReasons(Len(consulted))) = 2
    /\ \E n \in 1..Len(consulted) :
          /\ EntryRefused(consulted[n].alt, consulted[n].idx)
          /\ triedSchemes[consulted[n].scheme] # Undefined
          /\ Len(Lacking(requiredRoles, triedSchemes[consulted[n].scheme], "roles")) = 2
          /\ Lacking(securityRequirements[consulted[n].alt][consulted[n].idx].scopes,
                     triedSchemes[consulted[n].scheme], "scopes") = <<>>

(* ------------------------------- C9 ------------------------------------ *)

\* the rendering expected of alternative i
ExpectedRendering(i) ==
    LET names == [k \in 1..Len(securityRequirements[i]) |-> securityRequirements[i][k].scheme]
    IN  IF Len(names) = 1 THEN <<names[1]>>
        ELSE <<"(">> \o Separated(Words(names), " + ") \o <<")">>

\* C9: if no alternative succeeds and no scope or role reason was recorded,
\* the failure message lists every alternative in declaration order,
\* comma-joined, a single-scheme alternative as its scheme name and a
\* multi-scheme alternative as "(schemeA + schemeB)".
C9_FailureListsAlternatives ==
    (Done /\ ~ReturnedIdentity /\ Len(securityRequirements) > 0
          /\ ExpectedReasons(Len(consulted)) = <<>>) =>
        /\ outcome.kind = "throw"
        /\ outcome.error.message =
               <<"Must authenticate using one of the following schemes: ">>
               \o Separated([i \in Alternatives |-> ExpectedRendering(i)], ", ")
               \o <<".">>
        /\ securityRequirements = <<<<[scheme |-> "basicAuth", scopes |-> <<>>]>>,
                                    <<[scheme |-> "oauth", scopes |-> <<"admin">>]>>>>
           => outcome.error.message =
                  <<"Must authenticate using one of the following schemes: ",
                    "basicAuth", ", ", "oauth", ".">>
        /\ securityRequirements = <<<<[scheme |-> "basicAuth", scopes |-> <<>>],
                                      [scheme |-> "oauth", scopes |-> <<"admin">>]>>>>
           => outcome.error.message =
                  <<"Must authenticate using one of the following schemes: ",
                    "(", "basicAuth", " + ", "oauth", ")", ".">>

\* a single-scheme and a two-scheme alternative both failed without a reason
C9_Witness ==
    /\ Done /\ outcome.kind = "throw"
    /\ errors = <<>>
    /\ Len(securityRequirements) = 2
    /\ Len(securityRequirements[1]) = 1
    /\ Len(securityRequirements[2]) = 2

(* ------------------------------- C10 ----------------------------------- *)

\* C10: when every authenticator returns a falsy value, authenticate
\* completes without throwing and reports the failure on the response:
\* status code 401 and body {message: 'Must authenticate using one of the
\* following schemes: ...'}.
C10_NoCredentialsReportedOnResponse ==
    (/\ Done /\ Len(securityRequirements) > 0
     /\ \A i \in Alternatives : Len(securityRequirements[i]) > 0
     /\ \A s \in DOMAIN triedSchemes : triedSchemes[s] = Undefined) =>
        /\ outcome.kind = "return"
        /\ res.statusCode = 401
        /\ res.body = [message |->
               <<"Must authenticate using one of the following schemes: ">>
               \o Separated([i \in Alternatives |-> ExpectedRendering(i)], ", ")
               \o <<".">>]

(* ------------------------------- C11 ----------------------------------- *)

\* C11: an authenticator result whose type is 'invalid' never satisfies a
\* security scheme: no identity map returned by authenticate holds such a
\* result, and with alternatives [{basicAuth: []}, {oauth: ['admin']}],
\* basicAuth answering {type: 'invalid'} and oauth a result without the
\* 'admin' scope, authenticate returns no identity map.
C11_InvalidNeverSatisfies ==
    (Done /\ ReturnedIdentity) =>
        /\ \A s \in DOMAIN outcome.value : outcome.value[s].type # "invalid"
        /\ ~(/\ securityRequirements =
                    << <<[scheme |-> "basicAuth", scopes |-> <<>>]>>,
                       <<[scheme |-> "oauth", scopes |-> <<"admin">>]>> >>
             /\ "basicAuth" \in DOMAIN triedSchemes
             /\ triedSchemes["basicAuth"] = [type |-> "invalid"])

(* ------------- vocabulary of the properties of the runner -------------- *)

RunnerDone == runnerPc = "done"

\* the positions of the history at which the named collaborator was invoked
StepsNamed(name) == {i \in 1..Len(steps) : steps[i].step = name}

\* the request resolves to an operation
ResolvesToOperation ==
    /\ resolved # Undefined
    /\ resolved.operation # Undefined

\* the operation has both its controller module and its controller
ControllerBound ==
    /\ resolved.operation.controllerModule # Undefined
    /\ resolved.operation.controller # Undefined

\* the runner was made with autoHandleHttpErrors: true
AutoHandlingEnabled ==
    /\ "autoHandleHttpErrors" \in DOMAIN options
    /\ options.autoHandleHttpErrors = TRUE

\* plugin k has a preController hook
HasHook(k) == plugins[k].preController # Undefined

\* nothing of the pipeline has run: no authenticator, hook, parser or controller
NothingInvoked ==
    /\ steps = <<>>
    /\ pc = "idle"
    /\ \A s \in Schemes : calls[s] = 0

(* ------------------------------- C12 ----------------------------------- *)

\* C12: when the security evaluation of the runner fails, the failure is
\* propagated at once: it is the error the runner catches, no pre-controller
\* hook is invoked, no parameter or body parsing is attempted and the
\* controller is never invoked.
C12_SecurityFailurePropagates ==
    outcome.kind = "throw" =>
        /\ steps = <<>>
        /\ runnerPc \in {"handleSecurity", "catch", "done"}
        /\ runnerPc \in {"catch", "done"} => caught = outcome.error
        /\ (RunnerDone /\ runnerOutcome.kind = "throw") =>
               runnerOutcome.error = outcome.error
        /\ (RunnerDone /\ runnerOutcome.kind = "return") =>
               runnerOutcome.value.status = outcome.error.status

C12_Witness ==
    /\ RunnerDone
    /\ outcome.kind = "throw"
    /\ Len(plugins) = 2
    /\ HasHook(1)
    /\ runnerOutcome.kind = "throw"

(* ------------------------------- C13 ----------------------------------- *)

\* C13: the pre-controller hooks are invoked strictly in registration
\* order, each awaited before the next is started, and a hook is invoked
\* only if the response is not finished at that moment: once a hook or the
\* security step has finished the response, no later hook is invoked.
C13_HooksInRegistrationOrder ==
    /\ \A i \in StepsNamed("preController") :
           /\ ~steps[i].finished
           /\ steps[i].idx \in 1..Len(plugins)
           /\ HasHook(steps[i].idx)
           /\ \A j \in 1..(i - 1) :
                  /\ steps[j].step = "preController"
                  /\ steps[j].idx < steps[i].idx
           /\ \A k \in 1..(steps[i].idx - 1) :
                  HasHook(k) => \E j \in 1..(i - 1) : steps[j].idx = k
    /\ runnerPc = "await_preController" =>
           /\ steps[Len(steps)].step = "preController"
           /\ steps[Len(steps)].idx = pluginIdx
    /\ (runnerPc = "plugins" /\ pluginIdx > Len(plugins) /\ ~res.ended) =>
           \A k \in 1..Len(plugins) :
               HasHook(k) => \E j \in StepsNamed("preController") : steps[j].idx = k

C13_Witness ==
    /\ runnerPc = "plugins"
    /\ Len(plugins) = 2
    /\ pluginIdx = 3
    /\ Len(steps) = 1
    /\ steps[1].idx = 1
    /\ HasHook(2)
    /\ res.ended

(* ------------------------------- C14 ----------------------------------- *)

\* C14: finishing the response cancels the rest of the pipeline: the
\* controller is invoked at most once, and only if the response was not
\* finished by security, by a hook or by the parsing of parameters and body;
\* parameters and body are parsed only if the response is not finished after
\* the hooks.
C14_FinishedResponseCancels ==
    /\ Cardinality(StepsNamed("controller")) <= 1
    /\ Cardinality(StepsNamed("getParams")) <= 1
    /\ Cardinality(StepsNamed("getBody")) <= 1
    /\ \A i \in StepsNamed("controller") :
           /\ ~steps[i].finished
           /\ \A j \in 1..(i - 1) :
                  steps[j].step \in {"preController", "getParams", "getBody"}
    /\ \A i \in StepsNamed("getParams") :
           /\ ~steps[i].finished
           /\ \A j \in 1..(i - 1) : steps[j].step = "preController"
    /\ \A i \in StepsNamed("getBody") :
           /\ i > 1
           /\ steps[i - 1].step = "getParams"
    /\ (res.ended /\ runnerPc \in {"plugins", "controller"}) =>
           \A i \in 1..Len(steps) : ~steps[i].finished

C14_Witness ==
    /\ RunnerDone
    /\ runnerOutcome.kind = "return"
    /\ res.ended
    /\ StepsNamed("getBody") # {}
    /\ StepsNamed("controller") = {}

(* ------------------------------- C15 ----------------------------------- *)

C16_UnboundControllerIsConfigurationError ==
    (ResolvesToOperation /\ ~ControllerBound) =>
        /\ NothingInvoked
        /\ runnerPc \in {"start", "catch", "done"}
        /\ runnerPc # "start" =>
               /\ DOMAIN caught = {"message"}
               /\ caught.message = <<"No operation found for ", "GET", " ", "/path">>
        /\ RunnerDone => runnerOutcome = Thrown(caught)

C16_Witness ==
    /\ RunnerDone
    /\ ResolvesToOperation
    /\ ~ControllerBound
    /\ AutoHandlingEnabled
    /\ runnerOutcome.kind = "throw"

(* ------------------------------- C17 ----------------------------------- *)

\* the error the runner caught carries a status
CaughtWithStatus == caught # Undefined /\ "status" \in DOMAIN caught

\* the error the runner caught carries no status
CaughtWithoutStatus == caught # Undefined /\ "status" \notin DOMAIN caught

\* the JSON text of the body reporting the caught error
ExpectedErrorBody ==
    IF "errors" \in DOMAIN caught
    THEN <<"{", "\"", "message", "\"", ":", "\"", "Validation errors", "\"", ",",
           "\"", "errors", "\"", ":", "[", "{", "\"", "message", "\"", ":",
           "\"", "bad", "\"", "}", "]", "}">>
    ELSE <<"{", "\"", "message", "\"", ":", "\"">> \o caught.message \o <<"\"", "}">>

\* the runner returned the caught error as a JSON error result
ReturnedAsJsonError ==
    /\ runnerOutcome.kind = "return"
    /\ runnerOutcome.value.status = caught.status
    /\ DOMAIN runnerOutcome.value.headers = {"content-type"}
    /\ runnerOutcome.value.headers["content-type"].value = <<"application/json">>
    /\ runnerOutcome.value.body.content = ExpectedErrorBody

\* C17 (as claimed): an error raised in the pipeline that carries a numeric
\* status is always caught by the runner and returned as a JSON error result
\* with that status and content type application/json, never thrown to the
\* caller; an error without a status is thrown to the caller unchanged.
C17_StatusErrorsAlwaysReturned ==
    RunnerDone =>
        /\ CaughtWithStatus => ReturnedAsJsonError
        /\ CaughtWithoutStatus => runnerOutcome = Thrown(caught)

\* C17 (amended): with autoHandleHttpErrors enabled an error that carries an
\* integer status is returned as a JSON error result with that status and
\* content type application/json; without the option it is thrown to the
\* caller unchanged, as is every error without a status in either case.
C17_StatusErrorsReturnedWhenAutoHandled ==
    RunnerDone =>
        /\ (CaughtWithStatus /\ AutoHandlingEnabled) => ReturnedAsJsonError
        /\ (CaughtWithStatus /\ ~AutoHandlingEnabled) => runnerOutcome = Thrown(caught)
        /\ CaughtWithoutStatus => runnerOutcome = Thrown(caught)

C17_Witness ==
    /\ RunnerDone
    /\ AutoHandlingEnabled
    /\ CaughtWithStatus
    /\ caught.status = 409
    /\ StepsNamed("controller") # {}
    /\ ReturnedAsJsonError

(* ------------------------------- C18 ----------------------------------- *)

Falsy(value) ==
    value \in {Undefined, Null, BooleanOf(FALSE), NumberOf(0), StringOf(<<>>)}

\* the value the runner converts into its result
FinalValue == IF ~Falsy(res.body) THEN res.body ELSE controllerResult

\* the final value is serialized as JSON: it is truthy and neither a
\* Buffer, a string nor a stream
SerializedAsJson ==
    /\ ~Falsy(FinalValue)
    /\ FinalValue.jsType \notin {"Buffer", "string"}
    /\ "pipe" \notin DOMAIN FinalValue

\* C19: in the step that builds the result, a final value serialized as JSON
\* gets the content type application/json only if the response has no
\* content type yet; a content type set earlier by a hook or controller is
\* never overwritten, and for a Buffer, a string or a stream no content type
\* is added. The headers of the result are those of the response.
C19_ContentTypeOnlyWhenUnset ==
    [][(runnerPc = "respond" /\ runnerPc' = "done") =>
          /\ runnerOutcome'.value.headers = res'.headers
          /\ IF SerializedAsJson /\ "content-type" \notin DOMAIN res.headers
             THEN /\ DOMAIN res'.headers = DOMAIN res.headers \cup {"content-type"}
                  /\ res'.headers["content-type"].value = <<"application/json">>
                  /\ \A h \in DOMAIN res.headers : res'.headers[h] = res.headers[h]
             ELSE res'.headers = res.headers]_vars

C19_Witness ==
    /\ RunnerDone
    /\ runnerOutcome.kind = "return"
    /\ ~res.ended
    /\ controllerResult = [jsType |-> "object",
                           entries |-> << <<"message", [jsType |-> "string", value |-> <<"ok">>]>> >>]
    /\ "content-type" \in DOMAIN runnerOutcome.value.headers
    /\ runnerOutcome.value.headers["content-type"].value = <<"text/html">>

(* ------------------------------- C20 ----------------------------------- *)

\* C20: when a hook or controller finished the response with an object body,
\* by res.json(obj) or res.setBody(obj), and no content-type header was set,
\* the runner returns and does not throw: its result has the status code of
\* the response and, as body, the JSON serialization of the object.
C20_DirectResponseAccepted ==
    (/\ RunnerDone
     /\ steps # <<>>
     /\ steps[Len(steps)].step = "respond"
     /\ res.ended
     /\ res.body = [jsType |-> "object",
                    entries |-> << <<"message", [jsType |-> "string", value |-> <<"ok">>]>> >>]
     /\ "content-type" \notin DOMAIN res.headers) =>
        /\ runnerOutcome.kind = "return"
        /\ runnerOutcome.value.status = res.statusCode
        /\ runnerOutcome.value.body.content =
               <<"{", "\"", "message", "\"", ":", "\"", "ok", "\"", "}">>

(* ---------------------- the parameters of a request -------------------- *)

\* the most parameters an operation declares itself
MaxParameters == 2

\* value === undefined || value === null
IsNullish(value) == value = Undefined \/ value = Null

\* Array.isArray(value)
IsArray(value) == value.jsType = "array"

\* obj[key]
Get(obj, key) == IF key \in DOMAIN obj THEN obj[key] ELSE Undefined

\* the array of what the calls of a mapping answered; the first call that
\* throws ends the mapping
Collect(outcomes) ==
    LET throwing == {i \in 1..Len(outcomes) : outcomes[i].kind = "throw"}
    IN  IF throwing # {}
        THEN outcomes[CHOOSE i \in throwing : \A j \in throwing : i <= j]
        ELSE Returned(ArrayOf([i \in 1..Len(outcomes) |-> outcomes[i].value]))

\* arr.map(F)
Map(arr, F(_)) == Collect([i \in 1..Len(arr.items) |-> F(arr.items[i])])

\* the locations of ParametersByLocation, in the order of the object literals
Locations == <<"query", "header", "server", "path", "cookie">>

\* DEFAULT_STYLE
DEFAULT_STYLE ==
    [path |-> "simple", query |-> "form", cookie |-> "form", header |-> "simple"]

\* getDefaultExplode(style)
getDefaultExplode(style) == style = "form"

\* the media types options.parameterParsers has a parser for
RegisteredParsers == {"application/json", "text/plain"}

\* context.options.parameterParsers.get(mediaTypeString)
ParameterParsersGet(mediaTypeString) ==
    IF mediaTypeString # Undefined /\ mediaTypeString.value[1] \in RegisteredParsers
    THEN [parseString |-> mediaTypeString.value[1]]
    ELSE Undefined

\* `${value}` of a string or of undefined
Text(value) == IF value = Undefined THEN "undefined" ELSE value.value[1]

\* Object.keys(obj)
ObjectKeys(obj) == [i \in 1..Len(obj.entries) |-> obj.entries[i][1]]

\* the styles generateStyleParser knows
Styles == {"simple", "form", "matrix", "spaceDelimited", "pipeDelimited", "deepObject"}

\* generateStyleParser(descriptor): the parser, or the error of an unknown style
generateStyleParser(descriptor) ==
    IF descriptor.style \in Styles
    THEN Returned([kind |-> "style", style |-> descriptor.style,
                   explode |-> descriptor.explode, required |-> descriptor.required])
    ELSE Thrown(NewError(<<"Don't know how to parse parameters with style ",
                           descriptor.style>>))

\* generateMediaTypeParser(parameterDescriptor)
generateMediaTypeParser(descriptor) ==
    Returned([kind |-> "mediaType", contentType |-> descriptor.contentType,
              parser |-> descriptor.parser, uriEncoded |-> descriptor.uriEncoded,
              required |-> descriptor.required])

\* isMediaTypeParameterDescriptor(descriptor)
isMediaTypeParameterDescriptor(descriptor) ==
    /\ "contentType" \in DOMAIN descriptor
    /\ "parser" \in DOMAIN descriptor
    /\ Truthy(descriptor.contentType)
    /\ Truthy(descriptor.parser)

\* generateParser(parameterDescriptor)
generateParser(descriptor) ==
    IF isMediaTypeParameterDescriptor(descriptor)
    THEN generateMediaTypeParser(descriptor)
    ELSE generateStyleParser(descriptor)

\* the `style` of generateSchemaParser; a style that is not declared is ""
StyleOf(oaParameter) ==
    IF oaParameter.style # "" THEN oaParameter.style ELSE DEFAULT_STYLE[oaParameter.in]

\* the `explode` of generateSchemaParser
ExplodeOf(oaParameter, style) ==
    IF IsNullish(oaParameter.explode) THEN getDefaultExplode(style)
    ELSE oaParameter.explode

\* generateSchemaParser(self, schema)
generateSchemaParser(oaParameter) ==
    generateParser([required |-> oaParameter.required,
                    style |-> StyleOf(oaParameter),
                    explode |-> ExplodeOf(oaParameter, StyleOf(oaParameter)),
                    allowReserved |-> FALSE,
                    schema |-> oaParameter.schema])

\* the ParameterLocation of a parameter
LocationOf(oaParameter) == [in |-> oaParameter.in, name |-> oaParameter.name]

\* the fields of a Parameter whose parser was generated
ParameterWith(oaParameter, parser, schema) ==
    IF parser.kind = "throw" THEN parser
    ELSE Returned([location |-> LocationOf(oaParameter),
                   name |-> oaParameter.name,
                   oaParameter |-> oaParameter,
                   parser |-> parser.value,
                   validate |-> [schema |-> schema, required |-> oaParameter.required]])

\* Object.keys(content)[0]
FirstKey(keys) == IF keys = <<>> THEN Undefined ELSE StringOf(<<keys[1]>>)

\* the `content` branch of the constructor, given the parser of the media type
ContentBranch(oaParameter, mediaTypeString, parser) ==
    IF ~Truthy(parser)
    THEN Thrown(NewError(<<"Unable to find suitable mime type parser for type ",
                           Text(mediaTypeString), " in ", "/content">>))
    ELSE ParameterWith(oaParameter,
                       generateParser([required |-> oaParameter.required,
                                       contentType |-> mediaTypeString,
                                       parser |-> parser,
                                       uriEncoded |-> oaParameter.in \in {"query", "path"}]),
                       oaParameter.content.entries[1][2].schema)

\* new Parameter(context, oaParameter): the parameter, or the error thrown
NewParameter(oaParameter) ==
    IF Truthy(oaParameter.schema)
    THEN ParameterWith(oaParameter, generateSchemaParser(oaParameter), oaParameter.schema)
    ELSE IF Truthy(oaParameter.content)
    THEN ContentBranch(oaParameter, FirstKey(ObjectKeys(oaParameter.content)),
                       ParameterParsersGet(FirstKey(ObjectKeys(oaParameter.content))))
    ELSE Thrown(NewError(<<"Parameter ", oaParameter.name,
                           " should have a 'schema' or a 'content'">>))

\* the parameters of one location, in their order in allParameters
AtLocation(allParameters, in) ==
    SelectSeq(allParameters, LAMBDA parameter : parameter.oaParameter.in = in)

\* the constructor of Operation, from localParameters on
GroupParameters(parentParameters, localParameters) ==
    LET allParameters == parentParameters \o localParameters
    IN  [in \in {Locations[i] : i \in 1..Len(Locations)} |-> AtLocation(allParameters, in)]

(* ------------------------- parsing the raw values ---------------------- *)

\* one `key=value` of a query string; `key` is `name`, or `name[prop]`
Plain(name, value) == [key |-> name, name |-> name, prop |-> "", value |-> value]
Bracket(key, name, prop, value) == [key |-> key, name |-> name, prop |-> prop, value |-> value]

\* a query string: its `key=value` pairs, joined by `&`
QueryString(pairs) == [jsType |-> "string", pairs |-> pairs]

\* the pairs of a query string; none when the string is undefined
PairsOf(query) == IF query = Undefined THEN <<>> ELSE query.pairs

\* one value of a key, or the array of its values when the key is repeated
OneOrArray(values) ==
    IF Len(values) = 1 THEN values[1] ELSE ArrayOf(values)

\* the values of the pairs of one key, as they are written
RawValuesOf(own) == [i \in 1..Len(own) |-> StringOf(<<own[i].value>>)]

\* the object querystring.parse builds of the pairs
QuerystringObject(pairs) ==
    [key \in {pairs[i].key : i \in 1..Len(pairs)} |->
        OneOrArray(RawValuesOf(SelectSeq(pairs, LAMBDA pair : pair.key = key)))]

\* querystring.parse(query, '&', '=', {decodeURIComponent: val => val})
querystringParse(query) == QuerystringObject(PairsOf(query))

\* the percent-decoding of one escape; a malformed escape cannot be decoded
Decoded(token) == IF token = "%31" THEN "1" ELSE token
Malformed(token) == token = "%"

\* decodeURIComponent(value)
decodeURIComponent(value) ==
    IF \E i \in 1..Len(value.value) : Malformed(value.value[i])
    THEN Thrown(NewError(<<"URI malformed">>))
    ELSE Returned(StringOf([i \in 1..Len(value.value) |-> Decoded(value.value[i])]))

\* a decoded value, or the value as it is when it cannot be decoded
DecodedOr(value, decoded) == IF decoded.kind = "throw" THEN value ELSE decoded.value

\* the decoder of qs
qsDecode(value) == DecodedOr(value, decodeURIComponent(value))

\* the value qs.parse gives a name: `name[prop]=value` pairs are its properties
QsValue(own) ==
    IF own[1].prop = ""
    THEN OneOrArray([i \in 1..Len(own) |-> qsDecode(StringOf(<<own[i].value>>))])
    ELSE ObjectOf([i \in 1..Len(own) |->
                      <<own[i].prop, qsDecode(StringOf(<<own[i].value>>))>>])

\* the object qs.parse builds of the pairs
QsObject(pairs) ==
    [name \in {pairs[i].name : i \in 1..Len(pairs)} |->
        QsValue(SelectSeq(pairs, LAMBDA pair : pair.name = name))]

\* qs.parse(rawValue)
qsParse(query) == QsObject(PairsOf(query))

\* parser.parseString(value) of the registered parsers: JSON.parse, and the text as it is
parseString(parser, value) ==
    IF parser.parseString = "application/json"
    THEN IF value = StringOf(<<"1">>) THEN Returned(NumberOf(1))
         ELSE Thrown(NewError(<<"Unexpected token">>))
    ELSE Returned(value)

\* the ValidationError of one error of a parameter
ParameterError(message, location) ==
    ValidationError(<<[type |-> "error", message |-> message, location |-> location]>>)

\* value = decodeURIComponent(value), of an array or of one value
DecodeValue(value) ==
    IF IsArray(value) THEN Map(value, decodeURIComponent) ELSE decodeURIComponent(value)

\* parameterDescriptor.parser.parseString(value), of an array or of one value
ParseDecoded(descriptor, decoded) ==
    IF decoded.kind = "throw" THEN decoded
    ELSE IF IsArray(decoded.value)
    THEN Map(decoded.value, LAMBDA v : parseString(descriptor.parser, v))
    ELSE parseString(descriptor.parser, decoded.value)

\* the try block of the parser generateMediaTypeParser generates
TryParse(descriptor, value) ==
    IF IsNullish(value) THEN Returned(value)
    ELSE ParseDecoded(descriptor,
                      IF descriptor.uriEncoded THEN DecodeValue(value) ELSE Returned(value))

\* the catch clause of the parser generateMediaTypeParser generates
CatchParse(descriptor, location, parsed) ==
    IF parsed.kind = "throw"
    THEN Thrown(ParameterError(
             <<"Error parsing parameter ", location.name, " of type ",
               Text(descriptor.contentType), ": ">> \o parsed.error.message,
             location))
    ELSE parsed

\* the parser generateMediaTypeParser generates, before the required wrapper
mediaTypeParser(descriptor, location, values) ==
    CatchParse(descriptor, location, TryParse(descriptor, Get(values, location.name)))

\* the raw string parser of a style: a value that is not there stays undefined,
\* a malformed value makes the parser throw
rawStringParser(value) ==
    IF value = Undefined THEN Returned(Undefined)
    ELSE IF \E i \in 1..Len(value.value) : Malformed(value.value[i])
    THEN Thrown(NewError(<<"URI malformed">>))
    ELSE Returned(value)

\* value.map(parser), or parser(value)
MapOrApply(value) ==
    IF IsArray(value) THEN Map(value, rawStringParser) ELSE rawStringParser(value)

\* toStructuredParser(parser)
toStructuredParser(location, rawParamValues) ==
    MapOrApply(Get(rawParamValues, location.name))

\* the parsers of the styles form, matrix, spaceDelimited and pipeDelimited
structuredParser(location, rawParamValues) ==
    MapOrApply(Get(rawParamValues, location.name))

\* !parserContext.qsParsed, without the test
qsParsedMissingAlways(parserContext) == TRUE

\* !parserContext.qsParsed
qsParsedMissing(parserContext) == ~Truthy(Get(parserContext, "qsParsed"))

\* what deepObjectParser answers of the parse context it leaves
DeepObjectAnswer(location, missing, after) ==
    [outcome |-> Returned(Get(after.qsParsed, location.name)),
     parserContext |-> after,
     parsed |-> IF missing THEN 1 ELSE 0]

\* deepObjectParser: the value, the parse context it leaves, and whether it parsed
deepObjectParser(location, rawValue, parserContext) ==
    DeepObjectAnswer(location, qsParsedMissing(parserContext),
                     IF qsParsedMissing(parserContext)
                     THEN Put(parserContext, "qsParsed", qsParse(rawValue))
                     ELSE parserContext)

\* the parser generateStyleParser generates, before the required wrapper
styleParser(descriptor, location, rawParamValues, rawValue, parserContext) ==
    IF descriptor.style = "deepObject"
    THEN deepObjectParser(location, rawValue, parserContext)
    ELSE [outcome |-> IF descriptor.style = "simple"
                      THEN toStructuredParser(location, rawParamValues)
                      ELSE structuredParser(location, rawParamValues),
          parserContext |-> parserContext,
          parsed |-> 0]

\* requiredParameterWrapper(parser), without the test of the result
requiredParameterNoTest(location, answer) == answer

\* requiredParameterWrapper(parser), applied to what `parser` answered
requiredParameter(location, answer) ==
    IF answer.kind = "return" /\ IsNullish(answer.value)
    THEN Thrown(ParameterError(<<"Missing required parameter ", location.name>>, location))
    ELSE answer

\* the parser generated for a parameter, before the required wrapper
GeneratedParser(parameter, rawParamValues, rawValue, parserContext) ==
    IF parameter.parser.kind = "mediaType"
    THEN [outcome |-> mediaTypeParser(parameter.parser, parameter.location, rawParamValues),
          parserContext |-> parserContext,
          parsed |-> 0]
    ELSE styleParser(parameter.parser, parameter.location, rawParamValues, rawValue,
                     parserContext)

\* if(descriptor.required) answer = requiredParameterWrapper(answer)
Wrapped(parameter, answer) ==
    IF parameter.parser.required
    THEN [answer EXCEPT !.outcome = requiredParameter(parameter.location, @)]
    ELSE answer

\* parameter.parser(location, rawValues, rawQueryString, parserContext)
Parser(parameter, rawParamValues, rawValue, parserContext) ==
    Wrapped(parameter, GeneratedParser(parameter, rawParamValues, rawValue, parserContext))

\* the reduce of _parseParameterGroup from the i-th parameter on: what it
\* answers, and how often the raw value went through qs.parse
RECURSIVE ParseFrom(_, _, _, _, _, _, _)
RECURSIVE Reduce(_, _, _, _, _, _, _)
Reduce(params, i, rawValues, rawQueryString, parsedSoFar, parses, answer) ==
    IF answer.outcome.kind = "throw"
    THEN [outcome |-> answer.outcome, parses |-> parses + answer.parsed]
    ELSE ParseFrom(params, i + 1, rawValues, rawQueryString, answer.parserContext,
                   Put(parsedSoFar, params[i].location.name, answer.outcome.value),
                   parses + answer.parsed)

ParseFrom(params, i, rawValues, rawQueryString, parserContext, parsedSoFar, parses) ==
    IF i > Len(params) THEN [outcome |-> Returned(parsedSoFar), parses |-> parses]
    ELSE Reduce(params, i, rawValues, rawQueryString, parsedSoFar, parses,
                Parser(params[i], rawValues, rawQueryString, parserContext))

\* _parseParameterGroup(params, rawValues, rawQueryString)
parseParameterGroupWith(params, rawValues, rawQueryString) ==
    ParseFrom(params, 1, rawValues, rawQueryString, EmptyObject, EmptyObject, 0)

\* parseParameterGroup(params, rawValues)
parseParameterGroup(params, rawValues) ==
    parseParameterGroupWith(params, rawValues, QueryString(<<>>))

\* parseQueryParameters(params, query)
parseQueryParameters(params, query) ==
    parseParameterGroupWith(params, querystringParse(query), query)

\* headers || {}, params.serverParams || {}
OrEmpty(rawValues) == IF Truthy(rawValues) THEN rawValues ELSE EmptyObject

\* rawPathParams ? parseParameterGroup(this._parameters.path, rawPathParams) : {}
parsePath(params, rawPathParams) ==
    IF Truthy(rawPathParams) THEN parseParameterGroup(params, rawPathParams)
    ELSE [outcome |-> Returned(EmptyObject), parses |-> 0]

\* the object literal of parseParameters; the first group that throws ends it
ByLocation(query, header, server, path) ==
    [parses |-> query.parses,
     outcome |->
         IF query.outcome.kind = "throw" THEN query.outcome
         ELSE IF header.outcome.kind = "throw" THEN header.outcome
         ELSE IF path.outcome.kind = "throw" THEN path.outcome
         ELSE Returned([query |-> query.outcome.value,
                        header |-> header.outcome.value,
                        server |-> server,
                        path |-> path.outcome.value,
                        cookie |-> EmptyObject])]

\* the cookie parameters, were they taken from the headers of the request
WithCookies(answer, headers) ==
    IF answer.outcome.kind = "throw" THEN answer
    ELSE [answer EXCEPT !.outcome.value.cookie = headers]

\* a parseParameters that fills the cookie parameters
parseParametersWithCookies(byLocation, params) ==
    WithCookies(ByLocation(parseQueryParameters(byLocation.query, params.queryString),
                           parseParameterGroup(byLocation.header, OrEmpty(params.headers)),
                           OrEmpty(params.serverParams),
                           parsePath(byLocation.path, params.rawPathParams)),
                OrEmpty(params.headers))

\* Operation.parseParameters(params): what it answers, and the parses of the
\* query string its query parameters made
parseParameters(byLocation, params) ==
    ByLocation(parseQueryParameters(byLocation.query, params.queryString),
               parseParameterGroup(byLocation.header, OrEmpty(params.headers)),
               OrEmpty(params.serverParams),
               parsePath(byLocation.path, params.rawPathParams))

(* ----------------------- validating the parameters --------------------- *)

\* whether a value is of the type a schema names
OfType(value, type) ==
    \/ type = "string" /\ value.jsType = "string"
    \/ type = "integer" /\ (value.jsType = "number" \/ value = StringOf(<<"1">>))
    \/ type = "object" /\ value.jsType = "object"

\* the value a validator answers: the string of an integer becomes the integer
Coerced(value, type) ==
    IF type = "integer" /\ value = StringOf(<<"1">>) THEN NumberOf(1) ELSE value

\* parameter.validate(value): the validator generated for the parameter
validate(parameter, value) ==
    LET type == parameter.validate.schema.type
    IN  IF value = Undefined
        THEN IF parameter.validate.required
             THEN [errors |-> ArrayOf(<<[type |-> "error",
                                         message |-> <<"Missing required ",
                                                       parameter.location.in, " parameter">>,
                                         location |-> parameter.location]>>),
                   value |-> value]
             ELSE [errors |-> Null, value |-> value]
        ELSE IF OfType(value, type)
        THEN [errors |-> Null, value |-> Coerced(value, type)]
        ELSE [errors |-> ArrayOf(<<[type |-> "error",
                                    message |-> <<"should be ", type>>,
                                    location |-> parameter.location]>>),
              value |-> value]

\* errors = errors || []; errors.concat(...), keeping the errors of the first
\* failing parameter only
ConcatFirstOnly(errs, innerErrors) ==
    IF Truthy(errs) THEN errs ELSE innerErrors

\* errors = errors || []; errors = errors.concat(innerResult.errors)
Concat(errs, innerErrors) ==
    ArrayOf((IF Truthy(errs) THEN errs.items ELSE <<>>) \o innerErrors.items)

\* the parameters validateParameters visits: for each key of parameterValues, in
\* order, the parameters of that location
Visited(byLocation) ==
    byLocation.query \o byLocation.header \o byLocation.server \o byLocation.path
        \o byLocation.cookie

\* the loops of validateParameters from the i-th visited parameter on: the
\* errors, the values, and what the validators answered
RECURSIVE ValidateFrom(_, _, _, _, _)
RECURSIVE Validated(_, _, _, _, _, _)
Validated(visited, i, values, errs, reports, innerResult) ==
    IF Truthy(innerResult) /\ Truthy(innerResult.errors)
           /\ Len(innerResult.errors.items) > 0
    THEN ValidateFrom(visited, i + 1, values, Concat(errs, innerResult.errors),
                      Append(reports, innerResult))
    ELSE ValidateFrom(visited, i + 1,
                      [values EXCEPT ![visited[i].oaParameter.in] =
                          Put(@, visited[i].oaParameter.name, innerResult.value)],
                      errs, Append(reports, innerResult))

ValidateFrom(visited, i, values, errs, reports) ==
    IF i > Len(visited) THEN [errors |-> errs, values |-> values, reports |-> reports]
    ELSE Validated(visited, i, values, errs, reports,
                   validate(visited[i],
                            Get(values[visited[i].oaParameter.in],
                                visited[i].oaParameter.name)))

\* validateParameters, were `errors` kept from one call to the next
validateParametersKeepingErrors(byLocation, values) ==
    ValidateFrom(Visited(byLocation), 1, values,
                 IF validationErrors = Undefined THEN Null ELSE validationErrors, <<>>)

\* Operation.validateParameters(parameterValues): the errors, and the values
\* as the validators leave them
validateParameters(byLocation, values) ==
    ValidateFrom(Visited(byLocation), 1, values, Null, <<>>)

(* -------------------- Init and actions: the parameters ----------------- *)

\* a parameter object with a schema
SchemaParameter(name, in, required, style, type) ==
    [name |-> name, in |-> in, required |-> required, style |-> style,
     explode |-> Undefined, schema |-> [type |-> type], content |-> Undefined]

\* a parameter object with one media type
ContentParameter(name, in, required, mediaType, type) ==
    [name |-> name, in |-> in, required |-> required, style |-> "",
     explode |-> Undefined, schema |-> Undefined,
     content |-> ObjectOf(<< <<mediaType, [schema |-> [type |-> type]]>> >>)]

\* the parameter objects of the documents
ParameterObjects ==
    { SchemaParameter("a", "query", TRUE, "", "string"),
      SchemaParameter("a", "query", FALSE, "", "integer"),
      SchemaParameter("f", "query", FALSE, "deepObject", "object"),
      SchemaParameter("g", "query", TRUE, "deepObject", "string"),
      SchemaParameter("h", "header", TRUE, "", "integer"),
      SchemaParameter("p", "path", TRUE, "", "string"),
      ContentParameter("j", "query", FALSE, "application/json", "integer") }

\* the parameter lists of up to n parameter objects
ParameterLists(n) == UNION {[1..k -> ParameterObjects] : k \in 0..n}

\* the raw query strings of the requests
QueryStrings ==
    { Undefined,
      QueryString(<<>>),
      QueryString(<<Plain("a", "1")>>),
      QueryString(<<Plain("a", "x"), Plain("j", "%31")>>),
      QueryString(<<Plain("a", "%")>>),
      QueryString(<<Plain("a", "1"), Plain("a", "x")>>),
      QueryString(<<Bracket("f[p]", "f", "p", "%31"), Bracket("g[p]", "g", "p", "x")>>),
      QueryString(<<Plain("j", "%")>>),
      QueryString(<<Plain("j", "x"), Bracket("g[p]", "g", "p", "1")>>) }

\* the raw headers of the requests
RawHeaders ==
    { Undefined, [h |-> StringOf(<<"1">>)], [h |-> StringOf(<<"x">>)] }

\* the raw path parameters of the requests
RawPathParams == { Undefined, [p |-> StringOf(<<"1">>)] }

\* new Parameter(...) for each parameter object of a list
Compiled(oaParameterList) ==
    [i \in 1..Len(oaParameterList) |-> NewParameter(oaParameterList[i]).value]

\* the state of authenticate and of the runner when no request is dispatched
NoDispatch ==
    /\ securityRequirements = <<>>
    /\ requiredRoles = <<>>
    /\ pc = "idle"
    /\ altIdx = 0
    /\ schemeIdx = 0
    /\ reqResult = EmptyObject
    /\ failed = FALSE
    /\ result = Undefined
    /\ errors = <<>>
    /\ triedSchemes = EmptyObject
    /\ res = NewResponse
    /\ outcome = [kind |-> "pending"]
    /\ calls = [s \in Schemes |-> 0]
    /\ consulted = <<>>
    /\ endedAt = -1
    /\ NoRunner

\* an operation is compiled from the parameters of its path item and its own,
\* and a request brings its raw values
InitParameters ==
    /\ oaParameters \in [parent : ParameterLists(1), local : ParameterLists(MaxParameters)]
    /\ parameters = GroupParameters(Compiled(oaParameters.parent),
                                    Compiled(oaParameters.local))
    /\ rawParams \in [headers : RawHeaders, rawPathParams : RawPathParams,
                      serverParams : {Undefined}, queryString : QueryStrings]
    /\ paramPc = "parse"
    /\ parameterValues = Undefined
    /\ validationErrors = Undefined
    /\ qsParses = 0
    /\ validatorReports = <<>>
    /\ passes = <<>>
    /\ NoDispatch
    /\ NoCompile
    /\ NoConcurrent
    /\ NoParts

\* the state of authenticate and of the runner
dispatchVars ==
    <<securityRequirements, requiredRoles, pc, altIdx, schemeIdx, reqResult, failed,
      result, errors, triedSchemes, res, outcome, calls, consulted, endedAt, runnerVars>>

\* the state the parsing and validation of parameters leave alone
outsideParameters == <<dispatchVars, compileVars, concurrentVars, partVars>>

\* operation.parseParameters(params)
ParseParameters ==
    /\ paramPc = "parse"
    /\ LET answer == parseParameters(parameters, rawParams)
       IN  /\ parameterValues' = answer.outcome
           /\ qsParses' = answer.parses
           /\ paramPc' = IF answer.outcome.kind = "throw" THEN "done" ELSE "validate"
    /\ UNCHANGED <<oaParameters, parameters, rawParams, validationErrors,
                   validatorReports, passes, outsideParameters>>

\* operation.validateParameters(parameterValues), on the parsed values
ValidateParameters ==
    /\ paramPc = "validate"
    /\ LET answer == validateParameters(parameters, parameterValues.value)
       IN  /\ validationErrors' = answer.errors
           /\ validatorReports' = answer.reports
           /\ parameterValues' = Returned(answer.values)
    /\ paramPc' = "done"
    /\ UNCHANGED <<oaParameters, parameters, rawParams, qsParses, passes,
                   outsideParameters>>

NextParameters ==
    \/ ParseParameters
    \/ ValidateParameters

SpecParameters == InitParameters /\ [][NextParameters]_vars

(* --------------------- properties of the parameters -------------------- *)

\* the request went through parseParameters and validateParameters
ParametersValidated == paramPc = "done" /\ parameterValues.kind = "return"

\* the reports of the validators that reported errors
FailingReports ==
    SelectSeq(validatorReports,
              LAMBDA report : report.errors # Null /\ Len(report.errors.items) > 0)

\* the errors of some reports, one report after the other
RECURSIVE ErrorsOf(_)
ErrorsOf(reports) ==
    IF reports = <<>> THEN <<>>
    ELSE Head(reports).errors.items \o ErrorsOf(Tail(reports))

Parsed == paramPc # "parse" /\ paramPc # "none"

\* the raw values of the request do not contain the parameter
Absent(parameter) ==
    LET name == parameter.oaParameter.name
        in == parameter.oaParameter.in
        pairs == IF rawParams.queryString = Undefined THEN <<>>
                 ELSE rawParams.queryString.pairs
    IN  \/ /\ in = "query"
           /\ parameter.oaParameter.style = "deepObject"
           /\ \A i \in 1..Len(pairs) : pairs[i].name # name
        \/ /\ in = "query"
           /\ parameter.oaParameter.style # "deepObject"
           /\ \A i \in 1..Len(pairs) : pairs[i].key # name
        \/ /\ in = "header"
           /\ (rawParams.headers = Undefined \/ name \notin DOMAIN rawParams.headers)
        \/ /\ in = "path"
           /\ (rawParams.rawPathParams = Undefined
                  \/ name \notin DOMAIN rawParams.rawPathParams)

\* the parameters at query, header and path, in the order of their parsing
QueryHeaderPath == parameters.query \o parameters.header \o parameters.path

\* the parameters parseParameters hands to their parsers, in order: those at
\* path only when the request has raw path parameters
HandedToParsers ==
    parameters.query \o parameters.header
        \o (IF rawParams.rawPathParams = Undefined THEN <<>> ELSE parameters.path)

\* the validation error of a required parameter that is missing
MissingRequired(parameter) ==
    [status |-> 400,
     message |-> <<"Validation errors">>,
     errors |-> <<[type |-> "error",
                   message |-> <<"Missing required parameter ", parameter.oaParameter.name>>,
                   location |-> [in |-> parameter.oaParameter.in,
                                 name |-> parameter.oaParameter.name]]>>]

\* among the given parameters, every required one that the raw values do not
\* contain makes parseParameters fail, and the first of them, when nothing
\* before it has a raw value, fails it with its own 'Missing required parameter'
RequiredGuard(params) ==
    \A i \in 1..Len(params) :
        params[i].oaParameter.required /\ Absent(params[i]) =>
            /\ parameterValues.kind = "throw"
            /\ (\A j \in 1..(i - 1) : Absent(params[j]) /\ ~params[j].oaParameter.required)
                   => parameterValues.error = MissingRequired(params[i])

UnderlyingMessages == {"URI malformed", "Unexpected token"}

\* the error reports the parse failure of a parameter: it names the parameter,
\* its content type or style, and ends with the underlying message
ReportsParseFailure(error, parameter) ==
    /\ "errors" \in DOMAIN error
    /\ Len(error.errors) = 1
    /\ error.errors[1].location =
           [in |-> parameter.oaParameter.in, name |-> parameter.oaParameter.name]
    /\ LET message == error.errors[1].message
       IN  /\ Len(message) >= 5
           /\ message[2] = parameter.oaParameter.name
           /\ message[4] = IF parameter.parser.kind = "mediaType"
                           THEN parameter.parser.contentType.value[1]
                           ELSE parameter.parser.style
           /\ message[Len(message)] \in UnderlyingMessages

\* C23: whatever a generated parameter parser raises while decoding or parsing
\* a raw value leaves parseParameters as a ValidationError that names the
\* parameter and its content type or style and includes the underlying
\* message, never as the raw exception
C23_ParseFailureIsValidationError ==
    Parsed /\ parameterValues.kind = "throw" =>
        \E i \in 1..Len(QueryHeaderPath) :
            \/ parameterValues.error = MissingRequired(QueryHeaderPath[i])
            \/ ReportsParseFailure(parameterValues.error, QueryHeaderPath[i])

\* the deepObject parameters among the query parameters
DeepObjectParameters ==
    SelectSeq(parameters.query, LAMBDA parameter : parameter.parser.kind = "style"
                                    /\ parameter.parser.style = "deepObject")

\* a value of the query string as the nested-bracket syntax reads it
BracketValue(value) == [jsType |-> "string", value |-> <<IF value = "%31" THEN "1" ELSE value>>]

\* the entry of a name in the nested-bracket reading of the whole query string
EntryOf(name) ==
    LET pairs == IF rawParams.queryString = Undefined THEN <<>>
                 ELSE rawParams.queryString.pairs
        own == SelectSeq(pairs, LAMBDA pair : pair.name = name)
    IN  IF own = <<>> THEN Undefined
        ELSE IF own[1].prop # ""
        THEN [jsType |-> "object",
              entries |-> [i \in 1..Len(own) |-> <<own[i].prop, BracketValue(own[i].value)>>]]
        ELSE IF Len(own) = 1 THEN BracketValue(own[1].value)
        ELSE [jsType |-> "array",
              items |-> [i \in 1..Len(own) |-> BracketValue(own[i].value)]]

\* C24: while the query parameters of one request are parsed, the raw query
\* string goes through the deepObject parse at most once, however many
\* deepObject parameters are declared (and not at all without one), and the
\* value of each deepObject parameter is the entry of that parse under its name
C24_QueryStringParsedOnce ==
    Parsed =>
        /\ qsParses <= 1
        /\ DeepObjectParameters = <<>> => qsParses = 0
        /\ paramPc = "validate" =>
               \A i \in 1..Len(DeepObjectParameters) :
                   LET name == DeepObjectParameters[i].oaParameter.name
                   IN  /\ name \in DOMAIN parameterValues.value.query
                       /\ parameterValues.value.query[name] = EntryOf(name)

\* two deepObject parameters with different names were parsed, both out of
\* one parse of the query string
C24_Witness ==
    /\ paramPc = "validate"
    /\ qsParses = 1
    /\ \E i, j \in 1..Len(DeepObjectParameters) :
           /\ DeepObjectParameters[i].oaParameter.name # DeepObjectParameters[j].oaParameter.name
           /\ EntryOf(DeepObjectParameters[i].oaParameter.name) # Undefined
           /\ EntryOf(DeepObjectParameters[j].oaParameter.name) # Undefined

\* the compiled parameters of all locations
AllCompiled == Visited(parameters)

\* a parameter object of the path item that the operation declares again, with
\* the same name at the same location
Overridden(oaParameter) ==
    /\ \E i \in 1..Len(oaParameters.parent) : oaParameters.parent[i] = oaParameter
    /\ \E j \in 1..Len(oaParameters.local) :
           /\ oaParameters.local[j].name = oaParameter.name
           /\ oaParameters.local[j].in = oaParameter.in

\* the operation itself declares the name at the location as required
RequiredLocally(oaParameter) ==
    \E j \in 1..Len(oaParameters.local) :
        /\ oaParameters.local[j].name = oaParameter.name
        /\ oaParameters.local[j].in = oaParameter.in
        /\ oaParameters.local[j].required

\* C25: the parameters of an operation are those of its path item merged with
\* its own, its own replacing an inherited one of the same name and location:
\* at most one compiled parameter per (location, name), a name the operation
\* declares as optional is not required for the inherited definition, and each
\* (location, name) is validated once
C25_LocalOverridesInherited ==
    /\ \A i, j \in 1..Len(AllCompiled) :
           /\ AllCompiled[i].oaParameter.in = AllCompiled[j].oaParameter.in
           /\ AllCompiled[i].oaParameter.name = AllCompiled[j].oaParameter.name
           => i = j
    /\ Parsed /\ parameterValues.kind = "throw" =>
           \A i \in 1..Len(AllCompiled) :
               /\ Overridden(AllCompiled[i].oaParameter)
               /\ ~RequiredLocally(AllCompiled[i].oaParameter)
               => parameterValues.error # MissingRequired(AllCompiled[i])
    /\ ParametersValidated =>
           Len(validatorReports) <= Cardinality({<<AllCompiled[i].oaParameter.in,
                                                   AllCompiled[i].oaParameter.name>> :
                                                     i \in 1..Len(AllCompiled)})

(* --------------------- the compilation of an operation ----------------- *)

\* the most media types a request body declares
MaxMediaTypes == 2

\* a || b
Or(a, b) == IF Truthy(a) THEN a ELSE b

\* value.length: of an array, of a string; undefined of anything else
Length(value) ==
    IF value.jsType = "array" THEN Len(value.items)
    ELSE IF value.jsType = "string" THEN Len(value.value)
    ELSE 0

\* METHODS_WITH_BODY
METHODS_WITH_BODY == {"post", "put"}

\* oaOperation.security || ctx.openApiDoc.security || [], reading an empty
\* list of the operation as no list
SecurityOfSkippingEmpty(ctx, oaOp) ==
    IF Truthy(oaOp.security) /\ Length(oaOp.security) > 0 THEN oaOp.security
    ELSE Or(ctx.openApiDoc.security, ArrayOf(<<>>))

\* oaOperation.security || ctx.openApiDoc.security || []
SecurityOf(ctx, oaOp) ==
    Or(oaOp.security, Or(ctx.openApiDoc.security, ArrayOf(<<>>)))

\* oaOperation[EXEGESIS_ROLES] || ctx.openApiDoc[EXEGESIS_ROLES] || []
RolesOf(ctx, oaOp) ==
    Or(oaOp.roles, Or(ctx.openApiDoc.roles, ArrayOf(<<>>)))

\* requiredRoles.join(','): a string has no join
JoinRoles(roles) ==
    IF roles.jsType = "array"
    THEN Returned(Join(Strs(roles.items), ","))
    ELSE Thrown(NewError(<<"requiredRoles.join is not a function">>))

\* the error of roles without security requirements
NoSecurityError(joined) ==
    IF joined.kind = "throw" THEN joined
    ELSE Thrown(NewError(<<"Operation ", "/paths/~1path/get",
                           " has no security requirements, but requires roles: ">>
                         \o joined.value))

\* the roles after the test of roles without security requirements, throwing
\* also when the operation states its empty security itself
RolesWithoutSecurityAlwaysThrows(oaOp, requirements, roles) ==
    IF Truthy(roles) /\ Length(roles) > 0 /\ Length(requirements) = 0
    THEN NoSecurityError(JoinRoles(roles))
    ELSE Returned(roles)

\* the roles after the test of roles without security requirements
RolesWithoutSecurity(oaOp, requirements, roles) ==
    IF Truthy(roles) /\ Length(roles) > 0 /\ Length(requirements) = 0
    THEN IF Truthy(oaOp.security) /\ ~Truthy(oaOp.roles)
         THEN Returned(ArrayOf(<<>>))
         ELSE NoSecurityError(JoinRoles(roles))
    ELSE Returned(roles)

\* typeof requiredRoles === 'string', Array.isArray(requiredRoles)
RolesArray(checked) ==
    IF checked.kind = "throw" THEN checked
    ELSE IF checked.value.jsType = "string" THEN Returned(<<checked.value.value[1]>>)
    ELSE IF checked.value.jsType # "array"
    THEN Thrown(NewError(<<"/x-exegesis-roles", " must be an array of strings.">>))
    ELSE Returned(checked.value.items)

\* the object getSecurityRequirements returns
SecurityAndRoles(requirements, roles) ==
    IF roles.kind = "throw" THEN roles
    ELSE Returned([securityRequirements |-> requirements.items,
                   requiredRoles |-> roles.value])

\* getSecurityRequirements(ctx, oaOperation)
getSecurityRequirements(ctx, oaOp) ==
    SecurityAndRoles(SecurityOf(ctx, oaOp),
                     RolesArray(RolesWithoutSecurity(oaOp, SecurityOf(ctx, oaOp),
                                                     RolesOf(ctx, oaOp))))

\* the schemes of the requirements that have no authenticator
WithoutAuthenticator(ctx, requirements) ==
    UNION {{requirements[i][k].scheme : k \in 1..Len(requirements[i])} :
              i \in 1..Len(requirements)}
    \ DOMAIN ctx.options.authenticators

\* !controller && !allowMissingControllers, whatever the option says
LacksIgnoringOption(ctx, name) == ~Truthy(name)

\* !controller && !ctx.options.allowMissingControllers
Lacks(ctx, name) == ~Truthy(name) /\ ~ctx.options.allowMissingControllers

\* a validateController that does not look the names up in the controllers
validateControllerWithoutLookup(ctx, controller, operationId) ==
    IF Lacks(ctx, controller)
    THEN Thrown(NewError(<<"Missing x-exegesis-controller">>))
    ELSE IF Lacks(ctx, operationId)
    THEN Thrown(NewError(<<"Missing operationId or x-exegesis-operationId">>))
    ELSE Returned(Undefined)

\* a validateController that looks the controller up, but not its handler
validateControllerIgnoringHandler(ctx, controller, operationId) ==
    IF /\ Truthy(controller)
       /\ Truthy(operationId)
       /\ controller.value[1] \notin DOMAIN ctx.options.controllers
    THEN Thrown(NewError(<<"Could not find controller ", controller.value[1]>>))
    ELSE validateControllerWithoutLookup(ctx, controller, operationId)

\* validateController(context, controller, operationId)
validateController(ctx, controller, operationId) ==
    IF Lacks(ctx, controller)
    THEN Thrown(NewError(<<"Missing x-exegesis-controller">>))
    ELSE IF Lacks(ctx, operationId)
    THEN Thrown(NewError(<<"Missing operationId or x-exegesis-operationId">>))
    ELSE IF Truthy(controller) /\ Truthy(operationId)
    THEN IF controller.value[1] \notin DOMAIN ctx.options.controllers
         THEN Thrown(NewError(<<"Could not find controller ", controller.value[1]>>))
         ELSE IF operationId.value[1]
                     \notin DOMAIN ctx.options.controllers[controller.value[1]]
         THEN Thrown(NewError(<<"Could not find operation ", controller.value[1], "#",
                                operationId.value[1]>>))
         ELSE Returned(Undefined)
    ELSE Returned(Undefined)

\* the body of the loop of validateControllers, for one media type
validateMediaType(ctx, mediaTypeObject, opController, operationId) ==
    validateController(ctx,
                       Or(mediaTypeObject.controller, opController),
                       Or(mediaTypeObject.operationId, operationId))

\* the first of some outcomes that is a throw, or a return of undefined
FirstThrown(outcomes) ==
    LET throwing == {i \in 1..Len(outcomes) : outcomes[i].kind = "throw"}
    IN  IF throwing = {} THEN Returned(Undefined)
        ELSE outcomes[CHOOSE i \in throwing : \A j \in throwing : i <= j]

\* validateControllers(ctx, requestBody, opController, operationId)
validateControllers(ctx, requestBody, opController, operationId) ==
    IF Truthy(requestBody)
    THEN FirstThrown([i \in 1..Len(requestBody.content.entries) |->
                         validateMediaType(ctx, requestBody.content.entries[i][2],
                                           opController, operationId)])
    ELSE validateController(ctx, opController, operationId)

\* a constructor that keeps the request body of every method
RequestBodyOfAnyMethod(oaOp, httpMethod) ==
    IF Truthy(oaOp.requestBody) THEN oaOp.requestBody ELSE Undefined

\* oaOperation.requestBody && METHODS_WITH_BODY.includes(httpMethod) ? ... : undefined
RequestBodyOf(oaOp, httpMethod) ==
    IF Truthy(oaOp.requestBody) /\ httpMethod \in METHODS_WITH_BODY THEN oaOp.requestBody
    ELSE Undefined

\* contentToRequestMediaTypeRegistry(context, parameterLocation, required, content):
\* a registry with one RequestMediaType for each media type of `content`
contentToRequestMediaTypeRegistry(content) ==
    [name \in {content.entries[i][1] : i \in 1..Len(content.entries)} |->
        [oaMediaType |->
            content.entries[CHOOSE i \in 1..Len(content.entries) :
                                content.entries[i][1] = name][2]]]

\* the patterns `type/*` of the content types
SubtypeWildcard ==
    [contentType \in {"application/json", "text/plain", "image/png", "text/html"} |->
        CASE contentType = "application/json" -> "application/*"
          [] contentType \in {"text/plain", "text/html"} -> "text/*"
          [] contentType = "image/png" -> "image/*"]

\* MimeTypeRegistry.get(contentType): the most specific pattern that matches
MimeTypeRegistryGet(registry, contentType) ==
    IF contentType \in DOMAIN registry THEN registry[contentType]
    ELSE IF SubtypeWildcard[contentType] \in DOMAIN registry
    THEN registry[SubtypeWildcard[contentType]]
    ELSE IF "*/*" \in DOMAIN registry THEN registry["*/*"]
    ELSE Undefined

\* operation.getRequestMediaType(contentType)
getRequestMediaType(op, contentType) ==
    MimeTypeRegistryGet(op["_requestBodyContentTypes"], contentType)

\* new Parameter(...) for each parameter object of the operation
LocalParameters(oaOp) ==
    [i \in 1..Len(oaOp.parameters) |-> NewParameter(oaOp.parameters[i])]

\* the first parameter that could not be constructed, or 0
FirstFailure(outcomes) ==
    LET throwing == {i \in 1..Len(outcomes) : outcomes[i].kind = "throw"}
    IN  IF throwing = {} THEN 0 ELSE CHOOSE i \in throwing : \A j \in throwing : i <= j

(* ------------------ Init and actions: the compilation ------------------ *)

\* the controllers and the authenticators of the options
Controllers == [c |-> [op |-> Function]]
Authenticators == [basicAuth |-> Function, oauth |-> Function]

\* the options without `allowMissingControllers`
DefaultOptions == [controllers |-> Controllers, authenticators |-> Authenticators]

\* the options with `allowMissingControllers`
OptionsAllowing(allow) ==
    [controllers |-> Controllers, authenticators |-> Authenticators,
     allowMissingControllers |-> allow]

\* the options given to compileOptions
ExegesisOptions == {DefaultOptions} \cup {OptionsAllowing(allow) : allow \in BOOLEAN}

\* 'allowMissingControllers' in options ? !!options.allowMissingControllers : true
allowMissingControllersOf(exegesisOptions) ==
    IF "allowMissingControllers" \in DOMAIN exegesisOptions
    THEN exegesisOptions.allowMissingControllers
    ELSE TRUE

\* compileOptions(options)
compileOptions(exegesisOptions) ==
    [allowMissingControllers |-> allowMissingControllersOf(exegesisOptions),
     controllers |-> exegesisOptions.controllers,
     authenticators |-> exegesisOptions.authenticators]

\* new Oas3CompileContext(openApiDoc, path, compileOptions(options)), with the
\* options it was compiled from
CompileContext(openApiDoc, exegesisOptions) ==
    [openApiDoc |-> openApiDoc, options |-> compileOptions(exegesisOptions),
     exegesisOptions |-> exegesisOptions]

\* a security requirement object of one scheme without scopes
Requires(scheme) == <<[scheme |-> scheme, scopes |-> <<>>]>>

\* the `security` of a document
DocumentSecurity == {Undefined, ArrayOf(<<>>), ArrayOf(<<Requires("basicAuth")>>)}

\* the `x-exegesis-roles` of a document
DocumentRoles == {Undefined, ArrayOf(<<"admin">>)}

\* the `security` of an operation
OperationSecurity ==
    {Undefined, ArrayOf(<<>>), ArrayOf(<<Requires("oauth")>>), ArrayOf(<<Requires("foo")>>)}

\* the `x-exegesis-roles` of an operation
OperationRoles ==
    {Undefined, ArrayOf(<<>>), ArrayOf(<<"admin", "owner">>), StringOf(<<"admin">>),
     NumberOf(1)}

\* a media type object of a request body
MediaTypeObjects ==
    { [controller |-> Undefined, operationId |-> Undefined],
      [controller |-> StringOf(<<"c">>), operationId |-> StringOf(<<"op">>)],
      [controller |-> Undefined, operationId |-> StringOf(<<"op">>)] }

\* the media types of the request bodies, by their number
MediaTypeNames == <<"application/json", "text/plain", "image/png">>

\* the request bodies: none, or a `content` of up to MaxMediaTypes media types
RequestBodies ==
    {Undefined} \cup
    { [content |-> ObjectOf([i \in 1..n |-> <<MediaTypeNames[i], objects[i]>>])] :
        <<n, objects>> \in UNION {{<<k, o>> : o \in [1..k -> MediaTypeObjects]} :
                                   k \in 0..MaxMediaTypes} }

\* a parameter object, with its schema and its content as they are declared
ParameterObject(name, style, schema, content) ==
    [name |-> name, in |-> "query", required |-> FALSE, style |-> style,
     explode |-> Undefined, schema |-> schema, content |-> content]

\* the media type object of a parameter
MediaTypeOfParameter == [schema |-> [type |-> "string"]]

\* the parameter objects of the operations being compiled
DeclaredParameters ==
    { ParameterObject("s", "", [type |-> "string"], Undefined),
      ParameterObject("t", "tabDelimited", [type |-> "string"], Undefined),
      ParameterObject("n", "", Undefined, Undefined),
      ParameterObject("e", "", Undefined, ObjectOf(<<>>)),
      ParameterObject("j", "", Undefined,
                      ObjectOf(<< <<"application/json", MediaTypeOfParameter>> >>)),
      ParameterObject("i", "", Undefined,
                      ObjectOf(<< <<"image/png", MediaTypeOfParameter>> >>)),
      ParameterObject("m", "", Undefined,
                      ObjectOf(<< <<"application/json", MediaTypeOfParameter>>,
                                  <<"text/plain", MediaTypeOfParameter>> >>)),
      ParameterObject("b", "", [type |-> "string"],
                      ObjectOf(<< <<"application/json", MediaTypeOfParameter>> >>)) }

\* an operation object
OperationObject(security, roles, controller, xOperationId, operationId, requestBody, params) ==
    [security |-> security, roles |-> roles, controller |-> controller,
     xOperationId |-> xOperationId, operationId |-> operationId,
     requestBody |-> requestBody, parameters |-> params]

\* a document
Document(security, roles) == [security |-> security, roles |-> roles]

\* what is compiled: operations that differ in their security and roles, in
\* their controllers and request bodies, or in their parameters
Compilations ==
    { [context |-> CompileContext(Document(ds, dr), DefaultOptions),
       oaOperation |-> OperationObject(os, or, StringOf(<<"c">>), Undefined,
                                       StringOf(<<"op">>), Undefined, <<>>),
       args |-> [method |-> "get", exegesisController |-> Undefined]] :
        ds \in DocumentSecurity, dr \in DocumentRoles,
        os \in OperationSecurity, or \in OperationRoles }
    \cup
    { [context |-> CompileContext(Document(Undefined, Undefined), given),
       oaOperation |-> OperationObject(Undefined, Undefined, controller, xOperationId,
                                       operationId, requestBody, <<>>),
       args |-> [method |-> httpMethod, exegesisController |-> exegesisController]] :
        given \in ExegesisOptions,
        controller \in {Undefined, StringOf(<<"c">>), StringOf(<<"nope">>)},
        xOperationId \in {Undefined, StringOf(<<"op">>)},
        operationId \in {Undefined, StringOf(<<"other">>)},
        requestBody \in RequestBodies,
        httpMethod \in {"get", "post", "patch"},
        exegesisController \in {Undefined, StringOf(<<"c">>)} }
    \cup
    { [context |-> CompileContext(Document(Undefined, Undefined), DefaultOptions),
       oaOperation |-> OperationObject(Undefined, Undefined, Undefined, Undefined,
                                       Undefined, Undefined, params),
       args |-> [method |-> "get", exegesisController |-> Undefined]] :
        params \in UNION {[1..n -> DeclaredParameters] : n \in 0..1} }

\* the constructor of Operation is called
InitCompile ==
    /\ \E compilation \in Compilations :
           /\ compileContext = compilation.context
           /\ oaOperation = compilation.oaOperation
           /\ constructorArgs = compilation.args
    /\ operation = EmptyObject
    /\ compileError = Undefined
    /\ compilePc = "security"
    /\ NoDispatch
    /\ NoParameters
    /\ NoConcurrent
    /\ NoParts

\* the state the compilation leaves alone
outsideCompile == <<dispatchVars, parameterVars, concurrentVars, partVars>>

\* the constructor throws
Fails(error) ==
    /\ compileError' = error
    /\ compilePc' = "failed"
    /\ UNCHANGED operation

\* the constructor, down to this.requiredRoles = security.requiredRoles
ResolveSecurity ==
    /\ compilePc = "security"
    /\ LET security == getSecurityRequirements(compileContext, oaOperation)
       IN  IF security.kind = "throw" THEN Fails(security.error)
           ELSE /\ operation' =
                       [exegesisController |-> Or(oaOperation.controller,
                                                  constructorArgs.exegesisController),
                        operationId |-> Or(oaOperation.xOperationId, oaOperation.operationId),
                        securityRequirements |-> security.value.securityRequirements,
                        requiredRoles |-> security.value.requiredRoles]
                /\ compilePc' = "authenticators"
                /\ UNCHANGED compileError
    /\ UNCHANGED <<compileContext, oaOperation, constructorArgs, outsideCompile>>

\* the loops over the security requirements and their scheme names
CheckAuthenticators ==
    /\ compilePc = "authenticators"
    /\ LET unknown == WithoutAuthenticator(compileContext, operation.securityRequirements)
       IN  IF unknown # {}
           THEN Fails(NewError(<<"Operation ", "/paths/~1path/get",
                                 " references security scheme \"",
                                 CHOOSE scheme \in unknown : TRUE,
                                 "\" but no authenticator was provided.">>))
           ELSE /\ compilePc' = "controllers"
                /\ UNCHANGED <<operation, compileError>>
    /\ UNCHANGED <<compileContext, oaOperation, constructorArgs, outsideCompile>>

\* the request body of the httpMethod, validateControllers, validRequestContentTypes
\* and _requestBodyContentTypes
ValidateControllers ==
    /\ compilePc = "controllers"
    /\ LET requestBody == RequestBodyOf(oaOperation, constructorArgs.method)
           validated == validateControllers(compileContext, requestBody,
                                            operation.exegesisController,
                                            operation.operationId)
       IN  IF validated.kind = "throw" THEN Fails(validated.error)
           ELSE /\ operation' =
                       [k \in DOMAIN operation \cup {"validRequestContentTypes",
                                                     "_requestBodyContentTypes"} |->
                           IF k \in DOMAIN operation THEN operation[k]
                           ELSE IF k = "validRequestContentTypes"
                           THEN IF Truthy(requestBody)
                                THEN ArrayOf(ObjectKeys(requestBody.content))
                                ELSE Undefined
                           ELSE IF Truthy(requestBody)
                           THEN contentToRequestMediaTypeRegistry(requestBody.content)
                           ELSE EmptyObject]
                /\ compilePc' = "parameters"
                /\ UNCHANGED compileError
    /\ UNCHANGED <<compileContext, oaOperation, constructorArgs, outsideCompile>>

\* the local parameters and this._parameters
CompileParameters ==
    /\ compilePc = "parameters"
    /\ LET localParameters == LocalParameters(oaOperation)
           failure == FirstFailure(localParameters)
       IN  IF failure # 0 THEN Fails(localParameters[failure].error)
           ELSE /\ operation' =
                       [k \in DOMAIN operation \cup {"parameters"} |->
                           IF k # "parameters" THEN operation[k]
                           ELSE GroupParameters(<<>>,
                                    [i \in 1..Len(localParameters) |->
                                        localParameters[i].value])]
                /\ compilePc' = "compiled"
                /\ UNCHANGED compileError
    /\ UNCHANGED <<compileContext, oaOperation, constructorArgs, outsideCompile>>

NextCompile ==
    \/ ResolveSecurity
    \/ CheckAuthenticators
    \/ ValidateControllers
    \/ CompileParameters

SpecCompile == InitCompile /\ [][NextCompile]_vars


(* -------------------- properties of the compilation -------------------- *)

\* the constructor of Operation has returned or thrown
CompilationEnded == compilePc \in {"compiled", "failed"}

\* the required roles in effect: of the operation, else of the document
EffectiveRoles == RolesOf(compileContext, oaOperation)

\* the security requirements in effect: of the operation, else of the document
EffectiveSecurity == SecurityOf(compileContext, oaOperation)

\* roles are required and no security requirement is in effect
RolesWithoutRequirements ==
    /\ EffectiveRoles.jsType \in {"array", "string"}
    /\ Length(EffectiveRoles) > 0
    /\ Length(EffectiveSecurity) = 0

\* the operation itself states `security: []`
ExplicitlyNoSecurity == oaOperation.security = ArrayOf(<<>>)

\* the operation itself declares `x-exegesis-roles`
DeclaresRoles == oaOperation.roles # Undefined

\* C26 (as stated): compiling an operation whose required roles in effect are
\* not empty and whose security requirements in effect are empty fails, unless
\* the operation itself states `security: []`, and then it succeeds.
C26_RolesWithoutSecurityFailUnlessExplicit ==
    (CompilationEnded /\ RolesWithoutRequirements)
        => (compilePc = "compiled" <=> ExplicitlyNoSecurity)

\* C26 (amended): compiling an operation whose required roles in effect are not
\* empty and whose security requirements in effect are empty fails, unless the
\* operation itself states `security: []` and takes its roles from the
\* document; then it succeeds, and the compiled operation requires no roles.
C26_RolesWithoutSecurityFailUnlessExplicitAndInherited ==
    (CompilationEnded /\ RolesWithoutRequirements)
        => /\ compilePc = "compiled" <=> (ExplicitlyNoSecurity /\ ~DeclaresRoles)
           /\ compilePc = "compiled" => operation.requiredRoles = <<>>
           /\ compilePc = "failed" => compileError \in
                  { NoSecurityError(JoinRoles(EffectiveRoles)).error }

\* an operation that states `security: []` under a document with roles compiled
C26_Witness ==
    /\ compilePc = "compiled"
    /\ RolesWithoutRequirements
    /\ ExplicitlyNoSecurity
    /\ compileContext.openApiDoc.roles = ArrayOf(<<"admin">>)
    /\ operation.requiredRoles = <<>>


\* the constructor of Operation has set the security of the operation
SecurityResolved == compilePc \in {"authenticators", "controllers", "parameters", "compiled"}

\* the `security` the operation declares, else the one the document declares,
\* else none
DeclaredSecurity ==
    IF oaOperation.security # Undefined THEN oaOperation.security.items
    ELSE IF compileContext.openApiDoc.security # Undefined
    THEN compileContext.openApiDoc.security.items
    ELSE <<>>

\* C27: the security requirements of a compiled operation are its own
\* `security` whenever it declares one, the empty list included, which
\* overrides that of the document; the requirements of the document are used
\* only when the operation declares none, and the list is empty when neither
\* declares one.
C27_OwnSecurityOverridesDocument ==
    SecurityResolved => operation.securityRequirements = DeclaredSecurity

\* an operation with `security: []` under a document that requires basicAuth
\* was compiled with no security requirements
C27_Witness ==
    /\ compilePc = "compiled"
    /\ oaOperation.security = ArrayOf(<<>>)
    /\ compileContext.openApiDoc.security = ArrayOf(<<Requires("basicAuth")>>)
    /\ operation.securityRequirements = <<>>


\* the request body the constructor keeps: that of a method with a body
KeptRequestBody == RequestBodyOf(oaOperation, constructorArgs.method)

\* the controller and the operation identifier of what validateControllers
\* validates: of each media type of the kept request body, else of the operation
ValidatedUnits ==
    IF Truthy(KeptRequestBody)
    THEN { [controller |-> Or(KeptRequestBody.content.entries[i][2].controller,
                              operation.exegesisController),
            operationId |-> Or(KeptRequestBody.content.entries[i][2].operationId,
                               operation.operationId)] :
             i \in 1..Len(KeptRequestBody.content.entries) }
    ELSE { [controller |-> operation.exegesisController,
            operationId |-> operation.operationId] }

\* the constructor has reached validateControllers and has ended
ControllersValidated == CompilationEnded /\ "operationId" \in DOMAIN operation

\* the constructor threw for a missing controller or operation identifier
FailedForMissing ==
    /\ compilePc = "failed"
    /\ compileError \in {NewError(<<"Missing x-exegesis-controller">>),
                         NewError(<<"Missing operationId or x-exegesis-operationId">>)}

\* the options given turn `allowMissingControllers` on
AllowConfigured ==
    /\ "allowMissingControllers" \in DOMAIN compileContext.exegesisOptions
    /\ compileContext.exegesisOptions.allowMissingControllers

\* the options given turn `allowMissingControllers` off
AllowTurnedOff ==
    /\ "allowMissingControllers" \in DOMAIN compileContext.exegesisOptions
    /\ ~compileContext.exegesisOptions.allowMissingControllers

\* C28 (as stated): when the options do not configure missing controllers as
\* allowed, compiling fails if the operation, or a media type of its request
\* body, lacks a controller and an operation identifier; when they do, a
\* missing controller or operation identifier never makes compiling fail.
C28_MissingControllersFailUnlessConfigured ==
    ControllersValidated =>
        /\ (~AllowConfigured /\ \E unit \in ValidatedUnits :
                ~Truthy(unit.controller) /\ ~Truthy(unit.operationId))
              => compilePc = "failed"
        /\ AllowConfigured => ~FailedForMissing

\* C28 (amended): when the options turn `allowMissingControllers` off,
\* compiling fails if the operation, or a media type of its kept request body,
\* lacks a controller or an operation identifier; when the options turn it on
\* or do not mention it, a missing controller or operation identifier never
\* makes compiling fail.
C28_MissingControllersFailWhenTurnedOff ==
    ControllersValidated =>
        /\ (AllowTurnedOff /\ \E unit \in ValidatedUnits :
                ~Truthy(unit.controller) \/ ~Truthy(unit.operationId))
              => compilePc = "failed"
        /\ ~AllowTurnedOff => ~FailedForMissing
        /\ FailedForMissing => \E unit \in ValidatedUnits :
                ~Truthy(unit.controller) \/ ~Truthy(unit.operationId)

\* with the option turned off, a media type without controller and operation
\* identifier made the constructor throw
C28_Witness ==
    /\ AllowTurnedOff
    /\ ControllersValidated
    /\ Truthy(KeptRequestBody)
    /\ \E unit \in ValidatedUnits : ~Truthy(unit.controller) /\ ~Truthy(unit.operationId)
    /\ FailedForMissing


\* the number of media types of the `content` of a parameter object
ContentKeys(oaParameter) ==
    IF oaParameter.content = Undefined THEN 0 ELSE Len(oaParameter.content.entries)

\* a parameter object with exactly one of `schema` and `content`, its
\* `content` having exactly one media type
ExactlyOneOfSchemaAndContent(oaParameter) ==
    \/ oaParameter.schema # Undefined /\ oaParameter.content = Undefined
    \/ oaParameter.schema = Undefined /\ oaParameter.content # Undefined
                                      /\ ContentKeys(oaParameter) = 1

\* a parameter object with neither `schema` nor `content`, or with a `content`
\* of no media type or of several
NeitherOrNotOneKey(oaParameter) ==
    \/ oaParameter.schema = Undefined /\ oaParameter.content = Undefined
    \/ oaParameter.content # Undefined /\ ContentKeys(oaParameter) # 1

\* C29: every parameter that was compiled has exactly one of `schema` and
\* `content`, and its `content` has exactly one media type; compiling fails
\* for a parameter with neither, and for a `content` of no key or of several.
C29_ExactlyOneOfSchemaAndContent ==
    CompilationEnded =>
        /\ compilePc = "compiled" =>
              \A i \in 1..Len(oaOperation.parameters) :
                  ExactlyOneOfSchemaAndContent(oaOperation.parameters[i])
        /\ (\E i \in 1..Len(oaOperation.parameters) :
                NeitherOrNotOneKey(oaOperation.parameters[i]))
              => compilePc = "failed"


(* ------------------- two requests dispatched together ------------------ *)

\* the requests dispatched against one compiled operation
Requests == 1..2

\* the other request
Other(r) == CHOOSE o \in Requests : o # r

\* the identity of the `triedSchemes` of authenticate, were it one object for
\* every call
TriedSchemesOfShared(r) == <<"triedSchemes", "shared">>

\* the identity of `Object.create(null)`, the `triedSchemes` of the call of
\* authenticate made for a request: a new object in every call
TriedSchemesOf(r) == <<"triedSchemes", r>>

\* the identity of `{}`, the `parserContext` of the call of
\* _parseParameterGroup made for a request: a new object in every call
ParserContextOf(r) == <<"parserContext", r>>

\* the locals of a call of authenticate that has not run yet
NewCall ==
    [pc |-> "start", altIdx |-> 0, schemeIdx |-> 0, reqResult |-> EmptyObject,
     failed |-> FALSE, result |-> Undefined, errors |-> <<>>, ended |-> FALSE,
     outcome |-> [kind |-> "pending"]]

\* authenticate, up to its loop
BeginCall(call, requirements) ==
    IF Len(requirements) = 0
    THEN [call EXCEPT !.outcome = Returned(Undefined), !.pc = "done"]
    ELSE [call EXCEPT !.altIdx = 1, !.pc = "auth_loop"]

\* the head of the loop over the alternatives
LoopHead(call, requirements) ==
    IF call.altIdx <= Len(requirements)
    THEN [call EXCEPT !.reqResult = EmptyObject, !.failed = FALSE, !.schemeIdx = 1,
                      !.pc = "check_loop"]
    ELSE [call EXCEPT !.pc = "auth_exit"]

\* the rest of one iteration of _checkSecurityRequirement, given the checks
Checked(call, scheme, authenticated, check) ==
    IF check.failed
    THEN [call EXCEPT !.errors = @ \o check.errors, !.failed = TRUE,
                      !.pc = "check_return"]
    ELSE [call EXCEPT !.reqResult = Put(@, scheme, authenticated),
                      !.schemeIdx = @ + 1, !.pc = "check_loop"]

\* the rest of one iteration, from `const authenticated = triedSchemes[scheme]`
CheckWith(call, requirement, scheme, authenticated, roles) ==
    Checked(call, scheme, authenticated,
            CheckAuthenticated(requirement, scheme, authenticated, roles))

\* one iteration of the loop over the schemes, given what it does first
Branched(call, requirement, roles, tried, branch) ==
    IF branch = "return" THEN [call EXCEPT !.pc = "check_return"]
    ELSE IF branch = "finished" THEN [call EXCEPT !.failed = TRUE, !.pc = "check_return"]
    ELSE IF branch = "invoke" THEN [call EXCEPT !.pc = "await_authenticator"]
    ELSE CheckWith(call, requirement, Keys(requirement)[call.schemeIdx],
                   tried[Keys(requirement)[call.schemeIdx]], roles)

\* one iteration of the loop over the schemes
CheckLoop(call, requirement, roles, tried) ==
    Branched(call, requirement, roles, tried,
             LoopBranch(requirement, call.schemeIdx, call.ended, tried))

\* the loop of authenticate, given what _checkSecurityRequirement returned
CheckReturned(call, checked) ==
    IF StopsEvaluation(checked, call.ended)
    THEN [call EXCEPT !.result = checked, !.pc = "auth_exit"]
    ELSE [call EXCEPT !.result = checked, !.altIdx = @ + 1, !.pc = "auth_loop"]

\* _checkSecurityRequirement returns to the loop of authenticate
CheckReturn(call) ==
    CheckReturned(call, IF call.failed THEN Undefined ELSE call.reqResult)

\* authenticate, after its loop
Exit(call, requirements) ==
    [call EXCEPT !.pc = "done",
                 !.outcome = IF Truthy(call.result) THEN Returned(call.result)
                             ELSE IF Len(call.errors) > 0
                             THEN Thrown(ReasonsError(call.errors))
                             ELSE Thrown(NoCredentialsError(requirements))]

\* the next step of a call of authenticate that is not awaiting
Micro(call, requirements, roles, tried) ==
    IF call.pc = "start" THEN BeginCall(call, requirements)
    ELSE IF call.pc = "auth_loop" THEN LoopHead(call, requirements)
    ELSE IF call.pc = "check_loop"
    THEN CheckLoop(call, requirements[call.altIdx], roles, tried)
    ELSE IF call.pc = "check_return" THEN CheckReturn(call)
    ELSE Exit(call, requirements)

\* a call of authenticate runs until it awaits an authenticator or returns
RECURSIVE RunToAwait(_, _, _, _)
RunToAwait(call, requirements, roles, tried) ==
    IF call.pc \in {"await_authenticator", "done"} THEN call
    ELSE RunToAwait(Micro(call, requirements, roles, tried), requirements, roles, tried)

\* the scheme whose authenticator a call awaits
AwaitedScheme(call, requirements) == Keys(requirements[call.altIdx])[call.schemeIdx]

\* a call goes on from the await of an authenticator, whose answer is in `tried`
AfterAnswer(call, requirements, roles, tried, answer) ==
    RunToAwait(CheckWith([call EXCEPT !.ended = @ \/ answer.ends],
                         requirements[call.altIdx],
                         AwaitedScheme(call, requirements),
                         tried[AwaitedScheme(call, requirements)], roles),
               requirements, roles, tried)

\* authenticate called for one request alone, with the answers of its
\* authenticators: how it completes
RECURSIVE Alone(_, _, _, _, _)
RECURSIVE AloneWith(_, _, _, _, _, _)
AloneWith(call, requirements, roles, answers, answer, triedAfter) ==
    Alone(AfterAnswer(call, requirements, roles, triedAfter, answer),
          triedAfter, requirements, roles, answers)

Alone(call, tried, requirements, roles, answers) ==
    IF call.pc = "done" THEN call.outcome
    ELSE IF call.pc = "await_authenticator"
    THEN AloneWith(call, requirements, roles, answers,
                   answers[AwaitedScheme(call, requirements)],
                   Put(tried, AwaitedScheme(call, requirements),
                       answers[AwaitedScheme(call, requirements)].authenticated))
    ELSE Alone(RunToAwait(call, requirements, roles, tried), tried, requirements,
               roles, answers)

\* authenticate(exegesisContext) of a request dispatched alone
authenticateAlone(requirements, roles, answers) ==
    Alone(NewCall, EmptyObject, requirements, roles, answers)

\* the parse context a call of _parseParameterGroup leaves
ContextAfter(parserContext, query, answer) ==
    IF answer.parses > 0 THEN Put(parserContext, "qsParsed", qsParse(query))
    ELSE parserContext

\* _parseParameterGroup(params, rawValues, rawQueryString), from the making of
\* its parse context on
parseQueryParametersIn(params, query, parserContext) ==
    ParseFrom(params, 1, querystringParse(query), query, parserContext, EmptyObject, 0)

(* ---------------- Init and actions: two requests together -------------- *)

\* the security of the operation the two requests are dispatched against
ConcurrentSecurityLists ==
    RunnerSecurityLists
    \cup { << <<[scheme |-> "oauth", scopes |-> <<"admin">>],
                [scheme |-> "basicAuth", scopes |-> <<>>]>>,
              <<[scheme |-> "oauth", scopes |-> <<>>]>> >> }

\* what the authenticator of a scheme answers to a request, and whether it
\* ends the response
ConcurrentAnswers(scheme) ==
    IF scheme = "basicAuth"
    THEN { [authenticated |-> Undefined, ends |-> FALSE],
           [authenticated |-> [type |-> "success", user |-> StringOf(<<"benbria">>)],
            ends |-> FALSE] }
    ELSE { [authenticated |-> Undefined, ends |-> FALSE],
           [authenticated |-> Undefined, ends |-> TRUE],
           [authenticated |-> [type |-> "success", user |-> StringOf(<<"jwalton">>)],
            ends |-> FALSE],
           [authenticated |-> [type |-> "success", user |-> StringOf(<<"benbria">>),
                               scopes |-> <<"admin">>],
            ends |-> FALSE] }

\* the raw query strings of the two requests
ConcurrentQueryStrings ==
    { QueryString(<<>>),
      QueryString(<<Bracket("f[p]", "f", "p", "%31"), Bracket("g[p]", "g", "p", "x")>>),
      QueryString(<<Plain("j", "x"), Bracket("g[p]", "g", "p", "1")>>) }

\* the parameters of the operation the two requests are dispatched against
ConcurrentParameters ==
    <<SchemaParameter("f", "query", FALSE, "deepObject", "object"),
      SchemaParameter("g", "query", TRUE, "deepObject", "string")>>

\* a request that has been received and not yet dispatched
Incoming(answers, query) ==
    [answers |-> answers, queryString |-> query, auth |-> NewCall,
     values |-> [kind |-> "pending"], interleaved |-> FALSE]

\* the requests that can be received
IncomingRequests ==
    { Incoming(answers, query) :
        answers \in [basicAuth : ConcurrentAnswers("basicAuth"),
                     oauth : ConcurrentAnswers("oauth")],
        query \in ConcurrentQueryStrings }

\* the objects the calls allocate
ObjectIds ==
    {TriedSchemesOf(r) : r \in Requests} \cup {ParserContextOf(r) : r \in Requests}

\* one operation is compiled and two requests are received
InitConcurrent ==
    /\ securityRequirements \in ConcurrentSecurityLists
    /\ requiredRoles = <<>>
    /\ parameters = GroupParameters(<<>>, Compiled(ConcurrentParameters))
    /\ requests \in [Requests -> IncomingRequests]
    /\ heap = [id \in ObjectIds |-> EmptyObject]
    /\ pc = "idle"
    /\ altIdx = 0
    /\ schemeIdx = 0
    /\ reqResult = EmptyObject
    /\ failed = FALSE
    /\ result = Undefined
    /\ errors = <<>>
    /\ triedSchemes = EmptyObject
    /\ res = NewResponse
    /\ outcome = [kind |-> "pending"]
    /\ calls = [s \in Schemes |-> 0]
    /\ consulted = <<>>
    /\ endedAt = -1
    /\ NoRunner
    /\ oaParameters = EmptyObject
    /\ rawParams = EmptyObject
    /\ paramPc = "none"
    /\ parameterValues = Undefined
    /\ validationErrors = Undefined
    /\ qsParses = 0
    /\ validatorReports = <<>>
    /\ passes = <<>>
    /\ NoCompile
    /\ NoParts

\* the state the two requests leave alone
outsideConcurrent == <<dispatchVars, parameterVars, compileVars, partVars>>

\* the other request is between its first step and its last
InFlight(r) ==
    /\ requests[r].auth.pc # "start"
    /\ requests[r].values.kind = "pending"
    /\ ~(requests[r].auth.pc = "done" /\ requests[r].auth.outcome.kind = "throw")

\* a step of a request: its locals change, and it has interleaved with the
\* other request if that one is in flight
StepOf(r, call, values) ==
    requests' = [requests EXCEPT ![r].auth = call,
                                 ![r].values = values,
                                 ![r].interleaved = @ \/ InFlight(Other(r))]

\* operation.authenticate(context) is called for a request and runs to its
\* first await, or returns
Authenticate(r) ==
    /\ requests[r].auth.pc = "start"
    /\ StepOf(r, RunToAwait(requests[r].auth, securityRequirements, requiredRoles,
                            heap[TriedSchemesOf(r)]),
              requests[r].values)
    /\ UNCHANGED <<heap, outsideConcurrent>>

\* the authenticator a request awaits resolves: its answer is stored in
\* `triedSchemes` and the call runs to its next await, or returns
ResolvesWith(r, scheme, answer, triedAfter) ==
    /\ heap' = [heap EXCEPT ![TriedSchemesOf(r)] = triedAfter]
    /\ StepOf(r, AfterAnswer(requests[r].auth, securityRequirements, requiredRoles,
                             triedAfter, answer),
              requests[r].values)

AuthenticatorResolves(r) ==
    /\ requests[r].auth.pc = "await_authenticator"
    /\ ResolvesWith(r, AwaitedScheme(requests[r].auth, securityRequirements),
                    requests[r].answers[AwaitedScheme(requests[r].auth,
                                                      securityRequirements)],
                    Put(heap[TriedSchemesOf(r)],
                        AwaitedScheme(requests[r].auth, securityRequirements),
                        requests[r].answers[AwaitedScheme(requests[r].auth,
                                            securityRequirements)].authenticated))
    /\ UNCHANGED outsideConcurrent

\* the query parameters of an authenticated request are parsed
ParsedWith(r, answer) ==
    /\ heap' = [heap EXCEPT ![ParserContextOf(r)] =
                   ContextAfter(@, requests[r].queryString, answer)]
    /\ StepOf(r, requests[r].auth, answer.outcome)

ParseQueryParameters(r) ==
    /\ requests[r].auth.pc = "done"
    /\ requests[r].auth.outcome.kind = "return"
    /\ requests[r].values.kind = "pending"
    /\ ParsedWith(r, parseQueryParametersIn(parameters.query, requests[r].queryString,
                                            heap[ParserContextOf(r)]))
    /\ UNCHANGED outsideConcurrent

NextConcurrent ==
    \E r \in Requests :
        \/ Authenticate(r)
        \/ AuthenticatorResolves(r)
        \/ ParseQueryParameters(r)

SpecConcurrent == InitConcurrent /\ [][NextConcurrent]_vars


(* ---------------- properties of two requests together ------------------ *)

\* the `triedSchemes` of a request holds answers of its own authenticators only
OwnTriedSchemes(r) ==
    \A scheme \in DOMAIN heap[TriedSchemesOf(r)] :
        heap[TriedSchemesOf(r)][scheme] = requests[r].answers[scheme].authenticated

\* the parse context of a request holds the parse of its own query string only
OwnParserContext(r) ==
    \A key \in DOMAIN heap[ParserContextOf(r)] :
        /\ key = "qsParsed"
        /\ heap[ParserContextOf(r)][key] = qsParse(requests[r].queryString)

\* a request whose authenticate completed did so as it does when dispatched alone
AuthenticatedAsAlone(r) ==
    requests[r].auth.pc = "done"
        => requests[r].auth.outcome
               = authenticateAlone(securityRequirements, requiredRoles,
                                   requests[r].answers)

\* a request whose query parameters were parsed has the values it has when
\* dispatched alone
ParsedAsAlone(r) ==
    requests[r].values.kind # "pending"
        => requests[r].values
               = parseQueryParameters(parameters.query, requests[r].queryString).outcome

\* C30: when two requests are dispatched against one compiled operation and
\* their calls interleave at the awaits, each request has its own cache of
\* tried schemes and its own parse context of the query string: neither holds
\* an answer or a parse obtained for the other request, and each request
\* completes as it does when dispatched alone.
C30_RequestsShareNoState ==
    \A r \in Requests :
        /\ OwnTriedSchemes(r)
        /\ OwnParserContext(r)
        /\ AuthenticatedAsAlone(r)
        /\ ParsedAsAlone(r)

\* two requests whose authenticators answer differently and whose query
\* strings differ have interleaved, each has used its cache of tried schemes,
\* and both were parsed
C30_Witness ==
    /\ \A r \in Requests :
          /\ requests[r].interleaved
          /\ requests[r].values.kind = "return"
          /\ "oauth" \in DOMAIN heap[TriedSchemesOf(r)]
          /\ "qsParsed" \in DOMAIN heap[ParserContextOf(r)]
    /\ heap[TriedSchemesOf(1)]["oauth"] # heap[TriedSchemesOf(2)]["oauth"]
    /\ requests[1].auth.outcome # requests[2].auth.outcome
    /\ heap[ParserContextOf(1)] # heap[ParserContextOf(2)]


(* ---------------- the same request, parsed and validated again --------- *)

\* how often a request is parsed and validated again
MaxRepeats == 1

\* the parameter objects of the operations whose requests are repeated
RepeatedParameterObjects ==
    { SchemaParameter("a", "query", TRUE, "", "string"),
      SchemaParameter("f", "query", FALSE, "deepObject", "object"),
      SchemaParameter("h", "header", FALSE, "", "integer"),
      SchemaParameter("c", "cookie", TRUE, "", "string"),
      SchemaParameter("c", "cookie", FALSE, "", "integer") }

\* the raw headers of the repeated requests, some with a `cookie` header
RepeatedHeaders ==
    { Undefined,
      [h |-> StringOf(<<"1">>)],
      [h |-> StringOf(<<"x">>), cookie |-> StringOf(<<"c=1">>)],
      [c |-> StringOf(<<"1">>), cookie |-> StringOf(<<"c=1">>)] }

\* the server parameters of the repeated requests
ServerParams == { Undefined, [host |-> StringOf(<<"example">>)] }

\* the raw query strings of the repeated requests
RepeatedQueryStrings ==
    { Undefined,
      QueryString(<<Plain("a", "1"), Plain("c", "1")>>),
      QueryString(<<Plain("a", "%")>>),
      QueryString(<<Plain("a", "x"), Bracket("f[p]", "f", "p", "%31")>>) }

\* an operation is compiled and a request brings its raw values
InitRepeat ==
    /\ oaParameters \in
           [parent : {<<>>},
            local : UNION {[1..k -> RepeatedParameterObjects] : k \in 0..MaxParameters}]
    /\ parameters = GroupParameters(<<>>, Compiled(oaParameters.local))
    /\ rawParams \in [headers : RepeatedHeaders, rawPathParams : {Undefined},
                      serverParams : ServerParams, queryString : RepeatedQueryStrings]
    /\ paramPc = "parse"
    /\ parameterValues = Undefined
    /\ validationErrors = Undefined
    /\ qsParses = 0
    /\ validatorReports = <<>>
    /\ passes = <<>>
    /\ NoDispatch
    /\ NoCompile
    /\ NoConcurrent
    /\ NoParts

\* what a parse and validation of the request returned
Pass == [values |-> parameterValues, errors |-> validationErrors]

\* the same raw request is handed to parseParameters and validateParameters
\* again, on the same Operation
DispatchAgain ==
    /\ paramPc = "done"
    /\ Len(passes) < MaxRepeats
    /\ passes' = Append(passes, Pass)
    /\ paramPc' = "parse"
    /\ UNCHANGED <<oaParameters, parameters, rawParams, parameterValues,
                   validationErrors, qsParses, validatorReports, outsideParameters>>

NextRepeat ==
    \/ ParseParameters
    \/ ValidateParameters
    \/ DispatchAgain

SpecRepeat == InitRepeat /\ [][NextRepeat]_vars

(* -------------------- properties of the repeated request --------------- *)

ResolvableUnits(op, requestBody) ==
    IF Truthy(requestBody)
    THEN { [controller |-> Or(requestBody.content.entries[i][2].controller,
                              op.exegesisController),
            operationId |-> Or(requestBody.content.entries[i][2].operationId,
                               op.operationId)] :
             i \in 1..Len(requestBody.content.entries) }
    ELSE { [controller |-> op.exegesisController, operationId |-> op.operationId] }

\* the module the controller resolver finds for a controller, if any
ControllerModuleOf(unit, controllers) ==
    IF Truthy(unit.controller) /\ unit.controller.value[1] \in DOMAIN controllers
    THEN controllers[unit.controller.value[1]]
    ELSE Undefined

\* the handler the controller resolver finds in a module, if any
HandlerOf(unit, controllerModule) ==
    IF Truthy(controllerModule) /\ Truthy(unit.operationId)
           /\ unit.operationId.value[1] \in DOMAIN controllerModule
    THEN controllerModule[unit.operationId.value[1]]
    ELSE Undefined

\* the module of a resolved operation, as an object
ModuleObject(controllerModule) ==
    IF Truthy(controllerModule) THEN [jsType |-> "object"] ELSE Undefined

\* what api.resolve answers for a request that matches the operation
ResolvedOperation(unit, controllers) ==
    [operation |->
        [controllerModule |-> ModuleObject(ControllerModuleOf(unit, controllers)),
         controller |-> HandlerOf(unit, ControllerModuleOf(unit, controllers))]]

(* -------- Init and actions: dispatch to a compiled operation ----------- *)

\* the operations compiled and then dispatched to: their request bodies, when
\* they declare one, have a media type
LazyCompilations ==
    { compilation \in Compilations :
        \/ compilation.oaOperation.requestBody = Undefined
        \/ Len(compilation.oaOperation.requestBody.content.entries) > 0 }

\* the raw values of the requests dispatched to the compiled operations
LazyRawParams ==
    [headers : {Undefined}, rawPathParams : {Undefined}, serverParams : {Undefined},
     queryString : { Undefined,
                     QueryString(<<Plain("s", "x"), Plain("j", "%31")>>),
                     QueryString(<<Plain("m", "x"), Plain("b", "%")>>) }]

\* the constructor of Operation is called
InitLazy ==
    /\ \E compilation \in LazyCompilations :
           /\ compileContext = compilation.context
           /\ oaOperation = compilation.oaOperation
           /\ constructorArgs = compilation.args
    /\ operation = EmptyObject
    /\ compileError = Undefined
    /\ compilePc = "security"
    /\ NoDispatch
    /\ NoParameters
    /\ NoConcurrent
    /\ NoParts

\* a request matches the compiled operation: api.resolve answers the resolved
\* operation, with the controller bound to it and the raw values of the request
ResolveRequest ==
    /\ compilePc = "compiled"
    /\ \E unit \in ResolvableUnits(operation,
                                    RequestBodyOf(oaOperation, constructorArgs.method)) :
           resolved' = ResolvedOperation(unit, compileContext.options.controllers)
    /\ rawParams' \in LazyRawParams
    /\ parameters' = operation.parameters
    /\ paramPc' = "parse"
    /\ runnerPc' = "start"
    /\ compilePc' = "resolved"
    /\ UNCHANGED <<securityRequirements, requiredRoles, pc, altIdx, schemeIdx, reqResult,
                   failed, result, errors, triedSchemes, res, outcome, calls, consulted,
                   endedAt>>
    /\ UNCHANGED <<options, pluginIdx, context, controllerResult, caught, runnerOutcome,
                   steps>>
    /\ UNCHANGED <<oaParameters, parameterValues, validationErrors, qsParses,
                   validatorReports, passes>>
    /\ UNCHANGED <<compileContext, oaOperation, constructorArgs, operation, compileError,
                   concurrentVars, partVars>>

NextLazy ==
    \/ ResolveSecurity
    \/ CheckAuthenticators
    \/ ValidateControllers
    \/ CompileParameters
    \/ ResolveRequest
    \/ ThrowUnbound
    \/ HandleSecurity
    \/ Catch
    \/ ParseParameters
    \/ ValidateParameters

SpecLazy == InitLazy /\ [][NextLazy]_vars


(* --------- properties of the dispatch to a compiled operation ---------- *)

\* a request was dispatched to the compiled operation
Dispatched == compilePc = "resolved" /\ runnerPc # "start"

\* the errors of a defective contract or configuration
ConfigurationErrors ==
    { ConfigurationError }
    \cup { NewError(<<"Don't know how to parse parameters with style ", style>>) :
             style \in {"", "tabDelimited"} }
    \cup { NewError(<<"Unable to find suitable mime type parser for type ", type,
                      " in ", "/content">>) :
             type \in {"image/png", "undefined"} }

\* the dispatch of the request failed with such an error
FailedLazily ==
    \/ caught \in ConfigurationErrors
    \/ /\ paramPc \in {"validate", "done"}
       /\ parameterValues.kind = "throw"
       /\ parameterValues.error \in ConfigurationErrors

\* the controller of the resolved operation is not bound
Unbound ==
    \/ ~Truthy(resolved.operation.controllerModule)
    \/ ~Truthy(resolved.operation.controller)

MaxPaths == 2

\* a key of the `paths` object is the sequence of its pieces: "/" separates
\* the segments, "x-" is the prefix of a specification extension
IsExtension(key) == Len(key) > 0 /\ key[1] = "x-"

StartsWithSlash(key) == Len(key) > 0 /\ key[1] = "/"

\* a constructor that knows no specification extensions
KeyKindWithoutExtensions(key) ==
    IF StartsWithSlash(key) THEN "path" ELSE "invalid"

\* what the constructor of Paths does with a key: an extension is skipped, a
\* key that does not start with "/" is an error, any other key is a template
KeyKind(key) ==
    IF IsExtension(key) THEN "skip"
    ELSE IF StartsWithSlash(key) THEN "path"
    ELSE "invalid"

\* new Error(`Invalid path "${path}"`)
InvalidPathError(key) == NewError(<<"Invalid path \"">> \o key \o <<"\"">>)

RECURSIVE RegisterPaths(_, _)
\* the loop of the constructor of Paths over the keys that are left
RegisterPaths(keys, registered) ==
    IF keys = <<>> THEN Returned(registered)
    ELSE IF KeyKind(Head(keys)) = "skip" THEN RegisterPaths(Tail(keys), registered)
    ELSE IF KeyKind(Head(keys)) = "invalid" THEN Thrown(InvalidPathError(Head(keys)))
    ELSE RegisterPaths(Tail(keys), Append(registered, Head(keys)))

\* new Paths(context): the templates of the document, in its order
NewPaths(keys) == RegisterPaths(keys, <<>>)

RECURSIVE Segments(_, _)
\* the segments of a path or of a template: what "/" separates
Segments(pieces, segment) ==
    IF pieces = <<>> THEN <<segment>>
    ELSE IF Head(pieces) = "/" THEN <<segment>> \o Segments(Tail(pieces), <<>>)
    ELSE Segments(Tail(pieces), Append(segment, Head(pieces)))

\* the segments of a template that capture a path parameter, and its name
PathVariables == [segment \in {<<"{var}">>} |-> "var"]

\* a template matches a path of as many segments, whose literal segments are
\* the template's and whose other segments are not empty
Matches(template, path) ==
    LET t == Segments(template, <<>>)
        p == Segments(path, <<>>)
    IN  /\ Len(t) = Len(p)
        /\ \A i \in 1..Len(t) :
              IF t[i] \in DOMAIN PathVariables THEN p[i] # <<>> ELSE t[i] = p[i]

\* the raw values of the path parameters of a template that matches
RawPathParamsOf(template, path) ==
    LET t == Segments(template, <<>>)
        p == Segments(path, <<>>)
        captures == {i \in 1..Len(t) : t[i] \in DOMAIN PathVariables}
    IN  IF captures = {} THEN Undefined
        ELSE [name \in {PathVariables[t[i]] : i \in captures} |->
                 p[CHOOSE i \in captures : PathVariables[t[i]] = name]]

\* Paths.resolvePath(urlPathname): the first template that matches
resolvePath(templates, path) ==
    LET matching == {i \in 1..Len(templates) : Matches(templates[i], path)}
    IN  IF matching = {} THEN Undefined
        ELSE LET first == CHOOSE i \in matching : \A j \in matching : i <= j
             IN  [path |-> templates[first],
                  rawPathParams |-> RawPathParamsOf(templates[first], path)]

\* the keys a document may have
PathKeys ==
    { <<"/", "foo">>, <<"/", "{var}", "/", "foo">>, <<"/", "x-", "foo">>,
      <<"x-", "my-extension">>, <<"foo">>, <<"x", "/", "foo">> }

\* the paths asked of resolvePath
UrlPathnames ==
    { <<"/", "foo">>, <<"/", "bar", "/", "foo">>, <<"/", "x-", "foo">>,
      <<"x-", "my-extension">>, <<"foo">>, <<"/", "foo", "/", "bar">> }

\* the `paths` objects: an object has each key once
PathsObjects ==
    {keys \in UNION {[1..n -> PathKeys] : n \in 0..MaxPaths} :
        \A i, j \in 1..Len(keys) : keys[i] = keys[j] => i = j}

\* a document whose paths are about to be compiled
InitPaths ==
    /\ oaPaths \in PathsObjects
    /\ pathsPc = "compile"
    /\ compiledPaths = <<>>
    /\ pathsError = Undefined
    /\ pathLookup = Undefined
    /\ formatCall = Undefined
    /\ resCalls = <<>>
    /\ NoDispatch
    /\ NoParameters
    /\ NoCompile
    /\ NoConcurrent

\* the state the compilation of the paths leaves alone
outsidePaths == <<dispatchVars, parameterVars, compileVars, concurrentVars, formatCall,
                  resCalls>>

\* the constructor of Paths returns or throws
PathsConstructed(compiled) ==
    /\ pathsPc' = IF compiled.kind = "throw" THEN "failed" ELSE "compiled"
    /\ compiledPaths' = IF compiled.kind = "throw" THEN <<>> ELSE compiled.value
    /\ pathsError' = IF compiled.kind = "throw" THEN compiled.error ELSE Undefined

\* new Paths(new Oas3Context(openApiDoc, ['paths'], options))
CompilePaths ==
    /\ pathsPc = "compile"
    /\ PathsConstructed(NewPaths(oaPaths))
    /\ UNCHANGED <<oaPaths, pathLookup, outsidePaths>>

\* paths.resolvePath(urlPathname)
ResolvePath ==
    /\ pathsPc = "compiled"
    /\ pathLookup = Undefined
    /\ \E path \in UrlPathnames :
          pathLookup' = [path |-> path, answer |-> resolvePath(compiledPaths, path)]
    /\ UNCHANGED <<oaPaths, pathsPc, compiledPaths, pathsError, outsidePaths>>

NextPaths ==
    \/ CompilePaths
    \/ ResolvePath

SpecPaths == InitPaths /\ [][NextPaths]_vars

(* ------------------- properties: the paths of the document ------------- *)

\* the constructor of Paths has returned or thrown
PathsEnded == pathsPc \in {"compiled", "failed"}

\* the keys of the document that are neither extensions nor start with "/"
InvalidKeys ==
    {i \in 1..Len(oaPaths) : ~IsExtension(oaPaths[i]) /\ ~StartsWithSlash(oaPaths[i])}

\* the keys of the document that start with "/"
SlashKeys == {oaPaths[i] : i \in {j \in 1..Len(oaPaths) : StartsWithSlash(oaPaths[j])}}

\* the key the error names is the first invalid one of the document
NamesFirstInvalidKey ==
    /\ pathsPc = "failed"
    /\ \E i \in InvalidKeys :
          /\ \A j \in InvalidKeys : i <= j
          /\ pathsError = NewError(<<"Invalid path \"">> \o oaPaths[i] \o <<"\"">>)

\* C33: the keys of the `paths` object are partitioned when the paths are
\* compiled: a key that starts with "x-" is skipped without an error and is no
\* route (resolving the key itself finds nothing), any other key that does not
\* start with "/" makes the compilation fail with the error
\* 'Invalid path "<key>"', and every routable template starts with "/".
C33_PathKeysPartitioned ==
    PathsEnded =>
        /\ InvalidKeys = {} =>
              /\ pathsPc = "compiled"
              /\ Elements(compiledPaths) = SlashKeys
        /\ InvalidKeys # {} => NamesFirstInvalidKey
        /\ \A i \in 1..Len(compiledPaths) :
              StartsWithSlash(compiledPaths[i]) /\ ~IsExtension(compiledPaths[i])
        /\ (pathLookup # Undefined /\ IsExtension(pathLookup.path))
              => pathLookup.answer = Undefined
        /\ (pathLookup # Undefined /\ pathLookup.answer # Undefined)
              => StartsWithSlash(pathLookup.answer.path)

\* a document with an extension key and a template was compiled, and the
\* extension key itself was asked of resolvePath
C33_Witness ==
    /\ pathsPc = "compiled"
    /\ compiledPaths # <<>>
    /\ \E i \in 1..Len(oaPaths) :
          /\ IsExtension(oaPaths[i])
          /\ pathLookup # Undefined
          /\ pathLookup.path = oaPaths[i]
          /\ pathLookup.answer = Undefined


(* ------------------------- the default format validators --------------- *)

\* a natural number is written with three digits of 24 bits, the highest first
Base == 2^24

NatOf(hi, mid, lo) == <<hi, mid, lo>>

NatLess(a, b) == \E i \in 1..3 : a[i] < b[i] /\ \A j \in 1..(i - 1) : a[j] = b[j]

\* a natural number a small step away from another, with its carry or borrow
NatPlus(m, d) ==
    IF m[3] + d >= Base
    THEN IF m[2] + 1 < Base THEN NatOf(m[1], m[2] + 1, m[3] + d - Base)
         ELSE NatOf(m[1] + 1, 0, m[3] + d - Base)
    ELSE IF m[3] + d >= 0 THEN NatOf(m[1], m[2], m[3] + d)
    ELSE IF m[2] > 0 THEN NatOf(m[1], m[2] - 1, m[3] + d + Base)
    ELSE NatOf(m[1] - 1, Base - 1, m[3] + d + Base)

\* the numbers of JavaScript: the finite ones, the infinities and NaN
Finite(neg, mag) == [jsType |-> "number", kind |-> "finite", neg |-> neg, mag |-> mag]
Infinite(neg) == [jsType |-> "number", kind |-> "Infinity", neg |-> neg]
NaN == [jsType |-> "number", kind |-> "NaN"]

\* Math.pow(2, e)
MathPow2(e) ==
    Finite(FALSE, [i \in 1..3 |-> IF 3 - i = e \div 24 THEN 2^(e % 24) ELSE 0])

\* x - d and x + d, for a positive x and a small d
Minus(x, d) == Finite(x.neg, NatPlus(x.mag, 0 - d))
Plus(x, d) == Finite(x.neg, NatPlus(x.mag, d))

\* -1 * x
Negated(x) ==
    IF x.kind = "NaN" THEN x
    ELSE IF x.kind = "Infinity" THEN Infinite(~x.neg)
    ELSE Finite(~x.neg, x.mag)

\* x <= y
LessOrEqual(x, y) ==
    IF x.kind = "NaN" \/ y.kind = "NaN" THEN FALSE
    ELSE IF x.kind = "Infinity" THEN x.neg \/ (y.kind = "Infinity" /\ ~y.neg)
    ELSE IF y.kind = "Infinity" THEN ~y.neg
    ELSE IF x.neg # y.neg THEN x.neg
    ELSE IF x.neg THEN ~NatLess(x.mag, y.mag)
    ELSE ~NatLess(y.mag, x.mag)

\* x >= y
GreaterOrEqual(x, y) == LessOrEqual(y, x)

\* a lower bound of int32 that mirrors its upper bound
INT_32_MIN_Mirrored == Negated(Minus(MathPow2(31), 1))

\* const INT_32_MIN = -1 * Math.pow(2, 31)
INT_32_MIN == Negated(MathPow2(31))

\* const INT_32_MAX = Math.pow(2, 31) - 1
INT_32_MAX == Minus(MathPow2(31), 1)

\* Number.MAX_SAFE_INTEGER and Number.MIN_SAFE_INTEGER: 2^53 - 1 and -(2^53 - 1)
MAX_SAFE_INTEGER == Minus(MathPow2(53), 1)
MIN_SAFE_INTEGER == Negated(MAX_SAFE_INTEGER)

INT_64_MIN == MIN_SAFE_INTEGER
INT_64_MAX == MAX_SAFE_INTEGER

\* the formats of defaultValidators whose type is 'number'
NumberFormats == {"int32", "int64", "double", "float"}

\* defaultValidators[format].validate(value)
defaultValidators(format, value) ==
    CASE format = "int32" ->
            GreaterOrEqual(value, INT_32_MIN) /\ LessOrEqual(value, INT_32_MAX)
      [] format = "int64" ->
            GreaterOrEqual(value, INT_64_MIN) /\ LessOrEqual(value, INT_64_MAX)
      [] format \in {"double", "float"} -> TRUE

\* how far from a power of two the numbers are taken
MaxDistance == 2

\* the numbers a format validator is called with: zero, one, the numbers around
\* 2^31 and 2^53 that a double can hold, the same below zero, the infinities
\* and NaN
FormatValues ==
    LET around(e) == {Plus(MathPow2(e), d) :
                        d \in {k \in (0 - MaxDistance)..MaxDistance :
                                  e < 53 \/ k <= 0 \/ k % 2 = 0}}
        positive == around(31) \cup around(53) \cup {Finite(FALSE, NatOf(0, 0, 1))}
    IN  positive \cup {Negated(x) : x \in positive}
            \cup {Finite(FALSE, NatOf(0, 0, 0)), Infinite(FALSE), Infinite(TRUE), NaN}

\* a validator is about to be called with a number
InitFormats ==
    /\ formatCall \in [format : NumberFormats, value : FormatValues]
    /\ oaPaths = <<>>
    /\ pathsPc = "none"
    /\ compiledPaths = <<>>
    /\ pathsError = Undefined
    /\ pathLookup = Undefined
    /\ resCalls = <<>>
    /\ NoDispatch
    /\ NoParameters
    /\ NoCompile
    /\ NoConcurrent

\* the validator answers
ValidateFormat ==
    /\ DOMAIN formatCall = {"format", "value"}
    /\ formatCall' = [format |-> formatCall.format, value |-> formatCall.value,
                      answer |-> defaultValidators(formatCall.format, formatCall.value)]
    /\ UNCHANGED <<dispatchVars, parameterVars, compileVars, concurrentVars, pathVars,
                   resCalls>>

NextFormats == ValidateFormat

SpecFormats == InitFormats /\ [][NextFormats]_vars

(* ------------------- properties: the default format validators --------- *)

\* the validator of the format has answered
Answered(format) == "answer" \in DOMAIN formatCall /\ formatCall.format = format

\* the number lies within [low, high]
Within(x, low, high) == LessOrEqual(low, x) /\ LessOrEqual(x, high)

TwoTo31 == MathPow2(31)
TwoTo53 == MathPow2(53)

\* int64 accepts exactly the numbers within the safe-integer bounds
Int64WithinSafeIntegers ==
    Answered("int64") =>
        (formatCall.answer <=>
            Within(formatCall.value, Negated(Minus(TwoTo53, 1)), Minus(TwoTo53, 1)))

\* C34, as the specification states it: int32 accepts a number exactly when it
\* lies within [-(2^31 - 1), 2^31 - 1], and int64 exactly the numbers within the
\* safe-integer bounds.
C34_Int32WithinMirroredBounds ==
    /\ Answered("int32") =>
          (formatCall.answer <=>
              Within(formatCall.value, Negated(Minus(TwoTo31, 1)), Minus(TwoTo31, 1)))
    /\ Int64WithinSafeIntegers

\* C34, amended: int32 accepts a number exactly when it lies within
\* [-(2^31), 2^31 - 1], and int64 exactly the numbers within the safe-integer
\* bounds [-(2^53 - 1), 2^53 - 1].
C34_Int32WithinTwosComplementBounds ==
    /\ Answered("int32") =>
          (formatCall.answer <=>
              Within(formatCall.value, Negated(TwoTo31), Minus(TwoTo31, 1)))
    /\ Int64WithinSafeIntegers

\* int32 was called with -(2^31) and accepted it
C34_Witness ==
    /\ Answered("int32")
    /\ formatCall.value = Negated(TwoTo31)
    /\ formatCall.answer


(* ------------------------- the operations of a response ---------------- *)

\* how many operations are invoked on one response
MaxCalls == 3

\* res.header(header, value)
header(r, name, value) == setHeader(r, name, value)

\* res.set(header, value)
set(r, name, value) == setHeader(r, name, value)

\* res.removeHeader(name)
removeHeader(r, name) ==
    IF r.ended
    THEN Threw(r, NewError(<<"Trying to remove header after response has been ended.">>))
    ELSE Completed([r EXCEPT !.headers = [k \in DOMAIN @ \ {name} |-> @[k]]])

\* res.body = body
setBodyProperty(r, value) == Completed([r EXCEPT !.body = value, !.ended = TRUE])

\* typeof(value) === 'string'
IsString(value) == "jsType" \in DOMAIN value /\ value.jsType = "string"

RECURSIVE SetHeaders(_, _, _)
\* the loop of writeHead over the names of `headers` that are left; the
\* names are distinct, so their order does not show in the outcome
SetHeaders(r, headers, names) ==
    IF names = {} THEN Completed(r)
    ELSE LET name == CHOOSE n \in names : TRUE
         IN  IF setHeader(r, name, headers[name]).thrown # <<>>
             THEN setHeader(r, name, headers[name])
             ELSE SetHeaders(setHeader(r, name, headers[name]).res, headers,
                             names \ {name})

\* the `headers` of writeHead once a second argument that is no string has
\* taken their place
HeadersOfWriteHead(statusMessage, headers) ==
    IF Truthy(statusMessage) /\ ~IsString(statusMessage) THEN statusMessage ELSE headers

\* res.writeHead(statusCode, statusMessage, headers)
writeHead(r, statusCode, statusMessage, headers) ==
    IF Truthy(HeadersOfWriteHead(statusMessage, headers))
    THEN SetHeaders([r EXCEPT !.statusCode = statusCode],
                    HeadersOfWriteHead(statusMessage, headers),
                    DOMAIN HeadersOfWriteHead(statusMessage, headers))
    ELSE Completed([r EXCEPT !.statusCode = statusCode])

\* the arguments of the operations
StatusCodes == {200, 404}
HeaderNames == {"a"}
HeaderValues == {StringOf(<<"1">>), StringOf(<<"2">>)}
Bodies == {StringOf(<<"x">>), StringOf(<<"y">>)}
HeaderObjects == {EmptyObject} \cup {[n \in {name} |-> StringOf(<<"1">>)] : name \in HeaderNames}
StatusMessages == {Undefined, StringOf(<<"Not Found">>)} \cup HeaderObjects

\* a response that was just constructed
InitResponse ==
    /\ NoDispatch
    /\ NoParameters
    /\ NoCompile
    /\ NoConcurrent
    /\ NoParts

\* the state the operations of a response leave alone
outsideResponse ==
    <<securityRequirements, requiredRoles, pc, altIdx, schemeIdx, reqResult, failed,
      result, errors, triedSchemes, outcome, calls, consulted, endedAt, runnerVars,
      parameterVars, compileVars, concurrentVars, pathVars, formatCall>>

\* an operation was invoked on the response and returned or threw
Invoked(name, completion) ==
    /\ Len(resCalls) < MaxCalls
    /\ res' = completion.res
    /\ resCalls' = Append(resCalls, [method |-> name, before |-> res,
                                     after |-> completion.res,
                                     thrown |-> completion.thrown])
    /\ UNCHANGED outsideResponse

SetStatus == \E status \in StatusCodes : Invoked("setStatus", setStatus(res, status))

Header ==
    \E name \in HeaderNames, value \in HeaderValues :
        Invoked("header", header(res, name, value))

Set ==
    \E name \in HeaderNames, value \in HeaderValues :
        Invoked("set", set(res, name, value))

SetHeader ==
    \E name \in HeaderNames, value \in HeaderValues :
        Invoked("setHeader", setHeader(res, name, value))

RemoveHeader == \E name \in HeaderNames : Invoked("removeHeader", removeHeader(res, name))

Json == \E value \in Bodies : Invoked("json", json(res, value))

SetBody == \E value \in Bodies : Invoked("setBody", setBody(res, value))

SetBodyProperty == \E value \in Bodies : Invoked("body", setBodyProperty(res, value))

End == Invoked("end", end(res))

WriteHead ==
    \E status \in StatusCodes, message \in StatusMessages,
       headers \in {Undefined} \cup HeaderObjects :
        Invoked("writeHead", writeHead(res, status, message, headers))

NextResponse ==
    \/ SetStatus
    \/ Header
    \/ Set
    \/ SetHeader
    \/ RemoveHeader
    \/ Json
    \/ SetBody
    \/ SetBodyProperty
    \/ End
    \/ WriteHead

SpecResponse == InitResponse /\ [][NextResponse]_vars

(* ------------------- properties: the operations of a response ---------- *)

\* the operation left statusCode, headers and body as they were
LeftUnchanged(c) ==
    /\ c.after.statusCode = c.before.statusCode
    /\ c.after.headers = c.before.headers
    /\ c.after.body = c.before.body

\* C35: an ended response is immutable: once `ended` is true it stays true, no
\* later operation changes statusCode, headers or body, and the operations
\* that throw on an ended response leave the three as they were.
C35_EndedResponseImmutable ==
    \A i \in 1..Len(resCalls) :
        resCalls[i].before.ended =>
            /\ resCalls[i].after.ended
            /\ LeftUnchanged(resCalls[i])

\* once `ended` is true it stays true, and the operations that test `ended`
\* first throw on an ended response and change nothing
GuardedOperationsReject ==
    \A i \in 1..Len(resCalls) :
        resCalls[i].before.ended =>
            /\ resCalls[i].after.ended
            /\ resCalls[i].method \in {"setStatus", "header", "set", "setHeader",
                                       "removeHeader", "json", "setBody"}
                  => resCalls[i].thrown # <<>> /\ LeftUnchanged(resCalls[i])
            /\ resCalls[i].method = "end" => LeftUnchanged(resCalls[i])

\* an ended response was assigned another body, and writeHead threw on an
\* ended response after it had replaced the status
EndedResponseChanged ==
    /\ \E i \in 1..Len(resCalls) :
          /\ resCalls[i].method = "body"
          /\ resCalls[i].before.ended
          /\ resCalls[i].after.body # resCalls[i].before.body
    /\ \E i \in 1..Len(resCalls) :
          /\ resCalls[i].method = "writeHead"
          /\ resCalls[i].before.ended
          /\ resCalls[i].thrown # <<>>
          /\ resCalls[i].after.statusCode # resCalls[i].before.statusCode


(* ------------------- properties: the identity of the context ----------- *)

\* handleSecurity has returned: authenticate returned and the runner went on
SecurityEvaluated ==
    /\ outcome.kind = "return"
    /\ runnerPc \notin {"none", "start", "handleSecurity"}

\* the schemes of the identity map authenticate returned
MatchedSchemes == IF Truthy(outcome.value) THEN DOMAIN outcome.value ELSE {}

\* C36: after authenticate has returned, context.security is the identity map
\* it returned, and context.user is the user of the one scheme of that map when
\* the map has exactly one scheme; with no scheme and with two or more schemes
\* context.user is left unset.
C36_UserOfTheOnlyScheme ==
    SecurityEvaluated =>
        /\ context.security = outcome.value
        /\ Cardinality(MatchedSchemes) = 1 =>
              \A scheme \in MatchedSchemes :
                  /\ context.user = outcome.value[scheme].user
                  /\ context.user # Undefined
        /\ Cardinality(MatchedSchemes) # 1 => context.user = Undefined

\* an alternative of one scheme won and the user of that scheme is the
\* context's
C36_Witness ==
    /\ SecurityEvaluated
    /\ Cardinality(MatchedSchemes) = 1
    /\ context.user = StringOf(<<"benbria">>)

\* an alternative of two schemes won, and the operation without security
\* was dispatched
SeveralSchemesMatched == SecurityEvaluated /\ Cardinality(MatchedSchemes) = 2
NoSchemeMatched == SecurityEvaluated /\ Cardinality(MatchedSchemes) = 0


(* ------------------- properties: the request body of a method ---------- *)

\* the document declares a request body and the method is neither post nor put
DeclaredBodyIgnored ==
    /\ compilePc # "none"
    /\ Truthy(oaOperation.requestBody)
    /\ constructorArgs.method \notin {"post", "put"}

\* the constructor has taken the step that validates the controllers
PastControllers ==
    /\ "operationId" \in DOMAIN operation
    /\ compilePc \in {"parameters", "compiled", "failed"}

\* the content types a request can bring
RequestContentTypes == {"application/json", "text/plain", "image/png", "text/html"}

\* validRequestContentTypes is undefined and no content type has a media type
WithoutRequestBody ==
    /\ "validRequestContentTypes" \in DOMAIN operation
    /\ operation.validRequestContentTypes = Undefined
    /\ \A contentType \in RequestContentTypes :
          getRequestMediaType(operation, contentType) = Undefined

\* what validating the controller and the operation identifier of the
\* operation itself gives
OwnControllerValidated ==
    validateController(compileContext, operation.exegesisController, operation.operationId)

FailedDespiteMediaTypes ==
    /\ DeclaredBodyIgnored
    /\ compilePc = "failed"
    /\ compileError = NewError(<<"Missing x-exegesis-controller">>)
    /\ Len(oaOperation.requestBody.content.entries) > 0
    /\ \A i \in 1..Len(oaOperation.requestBody.content.entries) :
          Truthy(oaOperation.requestBody.content.entries[i][2].controller)

\* an operation under post has the media types of its request body
WithRequestBody ==
    /\ compilePc = "compiled"
    /\ constructorArgs.method = "post"
    /\ getRequestMediaType(operation, "application/json") # Undefined
    /\ getRequestMediaType(operation, "text/html") = Undefined


(* ------------- properties: the cookie and server parameters ------------ *)

\* parseParameters has just returned
JustParsed == paramPc = "validate" /\ parameterValues.kind = "return"

\* the cookie parameters the operation declares
CookieParameters == {parameters.cookie[i] : i \in 1..Len(parameters.cookie)}

\* validateParameters reported the required cookie parameter as missing
ReportedMissing(parameter) ==
    /\ Truthy(validationErrors)
    /\ \E i \in 1..Len(validationErrors.items) :
          /\ validationErrors.items[i].location = parameter.location
          /\ validationErrors.items[i].message
                 = <<"Missing required ", "cookie", " parameter">>

\* validateParameters saw every declared cookie parameter as absent: its
\* value stays undefined, and it is reported missing when it is required
CookiesSeenAbsent ==
    \A parameter \in CookieParameters :
        /\ Get(parameterValues.value.cookie, parameter.oaParameter.name) = Undefined
        /\ parameter.oaParameter.required => ReportedMissing(parameter)

\* C38: parseParameters parses no cookie parameter and hands the server
\* parameters on as they are: what it returns has cookie = {} and server = the
\* given serverParams (or {}), so validateParameters sees every declared cookie
\* parameter as absent, whatever the headers of the request are.
C38_CookiesNeverParsed ==
    /\ JustParsed =>
          /\ parameterValues.value.cookie = EmptyObject
          /\ parameterValues.value.server = OrEmpty(rawParams.serverParams)
    /\ ParametersValidated =>
          /\ CookiesSeenAbsent
          /\ parameterValues.value.server = OrEmpty(rawParams.serverParams)

\* a request with a `cookie` header and server parameters was parsed and
\* validated for an operation that requires a cookie parameter, which was
\* reported missing
C38_Witness ==
    /\ ParametersValidated
    /\ "cookie" \in DOMAIN OrEmpty(rawParams.headers)
    /\ Truthy(rawParams.serverParams)
    /\ \E parameter \in CookieParameters :
          parameter.oaParameter.required /\ ReportedMissing(parameter)


(* ------------- properties: controllers that cannot be found ------------ *)

\* the unit names a controller and an operation identifier of which the
\* controllers table has no handler
Unresolvable(unit) ==
    /\ Truthy(unit.controller)
    /\ Truthy(unit.operationId)
    /\ \/ unit.controller.value[1] \notin DOMAIN compileContext.options.controllers
       \/ unit.operationId.value[1]
              \notin DOMAIN compileContext.options.controllers[unit.controller.value[1]]

\* the controller and the operation identifier the operation itself names
OperationUnit ==
    [controller |-> operation.exegesisController, operationId |-> operation.operationId]

\* the constructor threw one of the errors of validateController
FailedAtControllers ==
    /\ compilePc = "failed"
    /\ compileError.message[1] \in {"Missing x-exegesis-controller",
                                    "Missing operationId or x-exegesis-operationId",
                                    "Could not find controller ",
                                    "Could not find operation "}

\* the error says that a controller or a handler could not be found
CouldNotFind ==
    /\ Len(compileError.message) >= 2
    /\ compileError.message[1] \in {"Could not find controller ",
                                    "Could not find operation "}

\* C39, as stated: when the operation or a media type of its request body
\* names a controller and an operation identifier that the controllers table
\* does not resolve, the compilation fails, whatever allowMissingControllers
\* is; allowMissingControllers excuses only an absent name.
C39_UnresolvableNamesFail ==
    ControllersValidated =>
        /\ (Unresolvable(OperationUnit) \/ \E unit \in ValidatedUnits : Unresolvable(unit))
              => compilePc = "failed"
        /\ (compileContext.options.allowMissingControllers /\ FailedAtControllers)
              => CouldNotFind

\* C39, amended: what is validated is the operation itself when the
\* constructor keeps no request body, and else each media type of the request
\* body with the names of the operation where it has none of its own. When
\* such a unit names a controller and an operation identifier that the
\* controllers table does not resolve, the compilation fails, whatever
\* allowMissingControllers is; with allowMissingControllers on, validating the
\* controllers fails in this case only.
C39_UnresolvableValidatedNamesFail ==
    ControllersValidated =>
        /\ (\E unit \in ValidatedUnits : Unresolvable(unit)) => compilePc = "failed"
        /\ (compileContext.options.allowMissingControllers /\ FailedAtControllers) =>
              /\ CouldNotFind
              /\ \E unit \in ValidatedUnits : Unresolvable(unit)

\* with allowMissingControllers on, an operation whose controller is not in
\* the table failed to compile
C39_Witness ==
    /\ compileContext.options.allowMissingControllers
    /\ FailedAtControllers
    /\ CouldNotFind
    /\ \E unit \in ValidatedUnits : Unresolvable(unit)

\* an operation that names a controller the table lacks was compiled, as the
\* media types of its request body name their own, or as there are none
UnresolvableOperationCompiled ==
    /\ compilePc = "compiled"
    /\ Unresolvable(OperationUnit)
    /\ Truthy(KeptRequestBody)


(* ------------------- properties: the payload of the result ------------- *)

\* the runner has reached its return statement and has completed
Responded ==
    /\ runnerPc = "done"
    /\ \E i \in 1..Len(steps) : steps[i].step = "respond"

\* the body written on the response unless it is falsy, else what the
\* controller returned
ChosenPayload == IF ~Falsy(res.body) THEN res.body ELSE controllerResult

\* the stream that carries a payload
StreamOf(value) ==
    IF value.jsType = "Buffer" THEN bufferToStream(value)
    ELSE IF value.jsType = "string" THEN stringToStream(value.value)
    ELSE IF "pipe" \in DOMAIN value THEN value
    ELSE stringToStream(JSONStringify(value))

\* the result carries the chosen payload, and the status and the headers of
\* the response
ResultOfResponse ==
    /\ runnerOutcome.kind = "return"
    /\ runnerOutcome.value.status = res.statusCode
    /\ runnerOutcome.value.headers = res.headers
    /\ runnerOutcome.value.body =
           IF Falsy(ChosenPayload) THEN Undefined ELSE StreamOf(ChosenPayload)

\* C40: the payload of the result of a dispatch is the body written on the
\* response when that body is truthy, and else what the controller returned;
\* when the chosen value is falsy (undefined, null, false, 0, the empty string)
\* the result has no body; in every case the status and the headers of the
\* result are those of the response.
C40_PayloadOfResult == Responded => ResultOfResponse

\* the same, for the dispatches whose return statement did not throw
PayloadOfResultUnlessThrown == (Responded /\ caught = Undefined) => ResultOfResponse

\* the body of an ended response was chosen over what the controller returned
WrittenBodyChosen ==
    /\ Responded
    /\ caught = Undefined
    /\ ~Falsy(res.body)
    /\ ~Falsy(controllerResult)
    /\ controllerResult # res.body
    /\ ResultOfResponse

\* the controller returned false or 0 and the result has no body
FalsyValueReturned ==
    /\ Responded
    /\ controllerResult \in {BooleanOf(FALSE), NumberOf(0)}
    /\ runnerOutcome.value.body = Undefined

\* the return statement threw on a response ended with an object
ReturnThrew ==
    /\ Responded
    /\ caught = NewError(<<"Trying to set header after response has been ended.">>)
    /\ ChosenPayload = res.body

====
